---- MODULE Spec2Model ----
(***************************************************************************)
(* cliffcrown: a greetd greeter.                                           *)
(*                                                                         *)
(*   src/src/client.rs  the typestate protocol client (Client,             *)
(*                      ActiveClient, PromptingClient, SuccessfulClient)   *)
(*                      and the session driver ClientManager::run          *)
(*   src/src/gui.rs     the interaction bridge UiManager::run, the shared  *)
(*                      UiState cells and the render pass draw_ui          *)
(*   src/src/util/change_detector.rs   ChangeDetector                      *)
(*   src/src/gui/hidden_input.rs       IndicatorPhase                      *)
(*                                                                         *)
(* Five specifications over one set of variables:                          *)
(*   SpecClient     an arbitrary caller of the typestate API, Client::new  *)
(*                  included, with every transport operation free to fail  *)
(*   Spec           the running program after GUI::new: the driver task,   *)
(*                  the bridge task and the render loop, with the daemon   *)
(*                  and the user as environment                            *)
(*   SpecLocks      the same program with every RwLock acquisition of the  *)
(*                  two UiState cells as a step of its own                 *)
(*   SpecDetector   threads calling one ChangeDetector                     *)
(*   SpecIndicator  the calls made on the widget's IndicatorPhase          *)
(***************************************************************************)
EXTENDS Naturals, Sequences, FiniteSets

VARIABLES
  env_sock,   \* whether GREETD_SOCK is set in the process environment
  io,         \* every transport operation so far, in order
  client,     \* the typestate value currently held (by the caller / the driver)
  open,       \* the streams that are connected and not yet dropped
  last        \* the last typestate call: what it consumed and what it returned

clientVars == <<env_sock, io, client, open, last>>

VARIABLES
  config,         \* Config: restricted_user and command
  chans,          \* every oneshot channel made so far, by number
  driver,         \* the task running ClientManager::run
  bridge,         \* the task running UiManager::run
  render,         \* the thread running draw_ui, once per frame
  display,        \* UiState::display
  input,          \* UiState::input
  current_input,  \* GUI::current_input
  shown,          \* every value written to UiState::display, in order
  locks           \* who holds a guard of the RwLock of each cell

uiVars ==
  <<config, chans, driver, bridge, render, display, input, current_input, shown,
    locks>>
VARIABLES
  detector,   \* a ChangeDetector<T> shared by reference between threads
  callers,    \* each thread's position inside take_change / get_if_changed
  taken,      \* what the detector's callers were told since the last mark
  indicator,  \* the IndicatorPhase kept in the egui data store
  highlight   \* the last IndicatorPhase call: what it was given

utilVars == <<detector, callers, taken, indicator, highlight>>
vars == <<clientVars, uiVars, utilVars>>

(***************************************************************************)
(* Bounds and input sets                                                   *)
(***************************************************************************)
MaxIo == 6          \* SpecClient: transport operations per behaviour
MaxPrompts == 2     \* Spec: AuthMessage responses the daemon sends
MaxLen == 1         \* Spec: characters held in current_input
MaxEvents == 2      \* Spec: input events delivered within one frame
MaxThreads == 2     \* SpecDetector: threads holding a &ChangeDetector
MaxCalls == 4       \* SpecDetector: calls made through those references
MaxMarks == 2       \* SpecDetector: mutable dereferences
MaxSegments == 3    \* SpecIndicator: the largest `segments` passed in

Chars == {"a"}
Texts == {"Username:", "Password:"}
Descriptions == {"bad credentials"}
Usernames == {<<"a">>}
Commands == {<<"bash">>}

\* Option<String>: None is the empty sequence, Some(s) a one-element one;
\* a String is the sequence of its characters, so Some("") is << <<>> >>.
None == <<>>
Some(s) == <<s>>
ApiAnswers == {None, Some(<<>>), Some(<<"a">>)}

(***************************************************************************)
(* greetd_ipc message shapes (client.rs builds and matches them)           *)
(***************************************************************************)
CreateSession(u) == [t |-> "CreateSession", username |-> u]
PostAuthMessageResponse(a) == [t |-> "PostAuthMessageResponse", response |-> a]
CancelSession == [t |-> "CancelSession"]
StartSession(c, e) == [t |-> "StartSession", cmd |-> c, env |-> e]

Success == [t |-> "Success"]
ErrorTypes == {"Error", "AuthError"}
AuthMessageTypes == {"Visible", "Secret", "Info", "Error"}
ErrorResponse(k, d) == [t |-> "Error", error_type |-> k, description |-> d]
AuthMessage(k, m) ==
  [t |-> "AuthMessage", auth_message_type |-> k, auth_message |-> m]
Responses ==
  {Success}
    \cup {ErrorResponse(k, d) : k \in ErrorTypes, d \in Descriptions}
    \cup {AuthMessage(k, m) : k \in AuthMessageTypes, m \in Texts}
\* the responses the daemon of Spec sends: every kind, one text each
DaemonResponses ==
  {Success, ErrorResponse("Error", "bad credentials"),
   ErrorResponse("AuthError", "bad credentials"),
   AuthMessage("Visible", "Username:"), AuthMessage("Secret", "Password:"),
   AuthMessage("Info", "Username:"), AuthMessage("Error", "Password:")}
\* what Response::read_from can return: Ok(response) or Err(_)
ReadFailed == [t |-> "ReadFailed"]
ReadOutcomes == Responses \cup {ReadFailed}

(***************************************************************************)
(* ClientError and AuthPrompt                                              *)
(***************************************************************************)
NoError == [t |-> "NoError"]
MissingEnvVar == [t |-> "MissingEnvVar"]
FailedSocketConnection == [t |-> "FailedSocketConnection"]
FailedSocketWrite == [t |-> "FailedSocketWrite"]
FailedSocketRead == [t |-> "FailedSocketRead"]
GenericError(d) == [t |-> "GenericError", d |-> d]
AuthError(d) == [t |-> "AuthError", d |-> d]

Input(m, s) == [t |-> "Input", prompt |-> m, secret |-> s]
Info(m) == [t |-> "Info", note |-> m]
ErrorPrompt(m) == [t |-> "Error", note |-> m]

(***************************************************************************)
(* The typestate values.  Each owns the stream it names.                   *)
(***************************************************************************)
NoClient == [type |-> "None"]
Client(s) == [type |-> "Client", stream |-> s]
ActiveClient(s) == [type |-> "ActiveClient", stream |-> s]
PromptingClient(s, p) == [type |-> "PromptingClient", stream |-> s, prompt |-> p]
SuccessfulClient(s) == [type |-> "SuccessfulClient", stream |-> s]

\* transport events appended to io
Connect(s, ok) == [ev |-> "connect", stream |-> s, ok |-> ok]
Write(s, req, ok) == [ev |-> "write", stream |-> s, req |-> req, ok |-> ok]
Read(s, r) == [ev |-> "read", stream |-> s, resp |-> r]

\* Result<T, (ClientError, Self)>: ok, the value handed back, the error
Ok(v) == [ok |-> TRUE, val |-> v, err |-> NoError]
Err(e, v) == [ok |-> FALSE, val |-> v, err |-> e]

\* (mutant of Client_new: connects first, looks at the environment afterwards)
Client_new_connects_first(present, connected, s) ==
  IF ~connected THEN Err(FailedSocketConnection, NoClient)
  ELSE IF ~present THEN Err(MissingEnvVar, NoClient)
  ELSE Ok(Client(s))

\* Client::new.  present: GREETD_SOCK is set; connected: connect() succeeded;
\* s: the stream connect() returns.
Client_new(present, connected, s) ==
  IF ~present THEN Err(MissingEnvVar, NoClient)
  ELSE IF ~connected THEN Err(FailedSocketConnection, NoClient)
  ELSE Ok(Client(s))

\* the transport operations Client::new performs
Client_new_io(present, connected, s) ==
  IF ~present THEN <<>> ELSE <<Connect(s, connected)>>

\* ClientManager::new: the username channel is made, then `Client::new()?`
\* hands any error of Client::new straight to the caller
ClientManager_new(present, connected, s) ==
  LET c == Client_new(present, connected, s)
  IN IF c.ok THEN Ok(c.val) ELSE Err(c.err, NoClient)

\* Client::create_session; written: request.write_to succeeded
create_session(self, username, written) ==
  IF ~written THEN Err(FailedSocketWrite, self)
  ELSE Ok(ActiveClient(self.stream))

create_session_io(self, username, written) ==
  <<Write(self.stream, CreateSession(username), written)>>

\* (mutant of prompt_of: the secret flags of the two input kinds exchanged)
prompt_of_swapped(auth_message_type, auth_message) ==
  CASE auth_message_type = "Visible" -> Input(auth_message, TRUE)
    [] auth_message_type = "Secret" -> Input(auth_message, FALSE)
    [] auth_message_type = "Info" -> Info(auth_message)
    [] auth_message_type = "Error" -> ErrorPrompt(auth_message)

\* the AuthPrompt ActiveClient::next builds from an AuthMessage
prompt_of(auth_message_type, auth_message) ==
  CASE auth_message_type = "Visible" -> Input(auth_message, FALSE)
    [] auth_message_type = "Secret" -> Input(auth_message, TRUE)
    [] auth_message_type = "Info" -> Info(auth_message)
    [] auth_message_type = "Error" -> ErrorPrompt(auth_message)

\* (mutant of ActiveClient_next: a failed read drops the stream)
ActiveClient_next_drops(self, r) ==
  CASE r.t = "ReadFailed" -> Err(FailedSocketRead, NoClient)
    [] r.t = "Success" -> Ok(SuccessfulClient(self.stream))
    [] r.t = "Error" ->
         Err(IF r.error_type = "Error" THEN GenericError(r.description)
                                       ELSE AuthError(r.description),
             Client(self.stream))
    [] r.t = "AuthMessage" ->
         Ok(PromptingClient(self.stream,
                            prompt_of(r.auth_message_type, r.auth_message)))

\* (mutant of ActiveClient_next: an Info message is skipped, the client stays
\* active and the caller reads again)
ActiveClient_next_skips_info(self, r) ==
  CASE r.t = "ReadFailed" -> Err(FailedSocketRead, Client(self.stream))
    [] r.t = "Success" -> Ok(SuccessfulClient(self.stream))
    [] r.t = "Error" ->
         Err(IF r.error_type = "Error" THEN GenericError(r.description)
                                       ELSE AuthError(r.description),
             Client(self.stream))
    [] r.t = "AuthMessage" ->
         IF r.auth_message_type = "Info" THEN Ok(ActiveClient(self.stream))
         ELSE Ok(PromptingClient(self.stream,
                                 prompt_of(r.auth_message_type, r.auth_message)))

\* ActiveClient::next; r: what Response::read_from returned
ActiveClient_next(self, r) ==
  CASE r.t = "ReadFailed" -> Err(FailedSocketRead, Client(self.stream))
    [] r.t = "Success" -> Ok(SuccessfulClient(self.stream))
    [] r.t = "Error" ->
         Err(IF r.error_type = "Error" THEN GenericError(r.description)
                                       ELSE AuthError(r.description),
             Client(self.stream))
    [] r.t = "AuthMessage" ->
         Ok(PromptingClient(self.stream,
                            prompt_of(r.auth_message_type, r.auth_message)))

ActiveClient_next_io(self, r) == <<Read(self.stream, r)>>

\* ActiveClient::cancel: (Client, Option<ClientError>)
ActiveClient_cancel(self, written) ==
  [ok |-> written, val |-> Client(self.stream),
   err |-> IF written THEN NoError ELSE FailedSocketWrite]

\* (mutant of PromptingClient_cancel: a failed write hands the prompting
\* client back, as next does)
PromptingClient_cancel_keeps(self, written) ==
  [ok |-> written, val |-> IF written THEN Client(self.stream) ELSE self,
   err |-> IF written THEN NoError ELSE FailedSocketWrite]

\* PromptingClient::cancel: the same body as ActiveClient::cancel
PromptingClient_cancel(self, written) ==
  [ok |-> written, val |-> Client(self.stream),
   err |-> IF written THEN NoError ELSE FailedSocketWrite]

cancel_io(self, written) == <<Write(self.stream, CancelSession, written)>>

\* (mutant of PromptingClient_next: a failed write collapses the attempt to
\* an unauthenticated client)
PromptingClient_next_collapses(self, answer, written) ==
  IF ~written THEN Err(FailedSocketWrite, Client(self.stream))
  ELSE Ok(ActiveClient(self.stream))

\* PromptingClient::next
PromptingClient_next(self, answer, written) ==
  IF ~written THEN Err(FailedSocketWrite, self)
  ELSE Ok(ActiveClient(self.stream))

PromptingClient_next_io(self, answer, written) ==
  <<Write(self.stream, PostAuthMessageResponse(answer), written)>>

\* (mutant of finish: the result of the write is ignored)
finish_ignores_write(self, command, environment, written) == Ok(NoClient)

\* SuccessfulClient::finish: Ok(()) drops self, and the stream with it
finish(self, command, environment, written) ==
  IF ~written THEN Err(FailedSocketWrite, self)
  ELSE Ok(NoClient)

finish_io(self, command, environment, written) ==
  <<Write(self.stream, StartSession(command, environment), written)>>

\* the streams still owned once a call that consumed self has returned ret
Owned(streams, self, ret) ==
  (streams \ (IF self.type = "None" THEN {} ELSE {self.stream}))
    \cup (IF ret.val.type = "None" THEN {} ELSE {ret.val.stream})

\* the record of one typestate call
\* (at: the length of io when the call was made)
Call(op, self, arg, ret) ==
  [op |-> op, self |-> self, arg |-> arg, ret |-> ret, at |-> Len(io)]
NoCall == [op |-> "none"]

\* streams are numbered by the connect() calls made so far
Connects == Len(SelectSeq(io, LAMBDA e : e.ev = "connect"))

(***************************************************************************)
(* tokio oneshot channels and the packets sent on them                     *)
(***************************************************************************)
Nil == [t |-> "Nil"]
Unit == [t |-> "Unit"]                             \* ()
TextValue(s) == [t |-> "Text", s |-> s]            \* String
CommandValue(c) == [t |-> "Command", cmd |-> c]    \* Vec<String>
\* UsernamePacket = (String, Sender<StatePacket>)
UsernamePacket(u, c) == [t |-> "Username", username |-> u, responder |-> c]
\* PromptResponsePacket = (Option<String>, Sender<StatePacket>)
PromptResponsePacket(a, c) ==
  [t |-> "PromptResponse", answer |-> a, responder |-> c]
\* StatePacket::Prompt and StatePacket::Success
Prompt(p, c) == [t |-> "Prompt", prompt |-> p, response_sender |-> c]
SuccessPacket(c) == [t |-> "Success", command_sender |-> c]

\* oneshot::channel(): both halves held, nothing sent
oneshot_channel(kind) ==
  [kind |-> kind, val |-> Nil, tx |-> "held", rx |-> "held", sends |-> 0]

\* the Sender halves a value carries
Senders(v) ==
  CASE v.t \in {"Username", "PromptResponse"} -> {v.responder}
    [] v.t = "Prompt" -> {v.response_sender}
    [] v.t = "Success" -> {v.command_sender}
    [] v.t = "Confirm" -> {v.notifier}
    [] v.t = "TextInput" -> {v.responder}
    [] OTHER -> {}

\* dropping Sender halves that were never used
DropTx(cs, S) ==
  [i \in DOMAIN cs |->
     IF i \in S /\ cs[i].tx = "held" THEN [cs[i] EXCEPT !.tx = "dropped"]
     ELSE cs[i]]

\* dropping Receiver halves; a value waiting in one is dropped with it
DropRx(cs, S) ==
  LET waiting == UNION {Senders(cs[i].val) : i \in {j \in S \cap DOMAIN cs :
                                                     cs[j].rx = "held"}}
  IN DropTx([i \in DOMAIN cs |->
               IF i \in S /\ cs[i].rx = "held"
               THEN [cs[i] EXCEPT !.rx = "dropped"]
               ELSE cs[i]],
            waiting)

\* Sender::send(v): Err(v) when the Receiver is gone, and v is dropped by
\* every caller in this program (unwrap, or the result ignored)
SendOk(cs, c) == cs[c].rx # "dropped"
Send(cs, c, v) ==
  IF SendOk(cs, c)
  THEN [cs EXCEPT ![c].val = v, ![c].tx = "sent", ![c].sends = @ + 1]
  ELSE DropTx([cs EXCEPT ![c].tx = "failed", ![c].sends = @ + 1], Senders(v))

\* receiver.await: Ready(Ok(v)) once a value was sent, Ready(Err) once the
\* Sender was dropped unused, Pending otherwise
Ready(cs, c) == cs[c].rx = "held" /\ cs[c].tx = "sent"
Closed(cs, c) == cs[c].rx = "held" /\ cs[c].tx \in {"dropped", "failed"}
Recv(cs, c) == [cs EXCEPT ![c].rx = "received"]

(***************************************************************************)
(* UiState: the two cells (gui.rs)                                         *)
(***************************************************************************)
Empty == [t |-> "Empty"]
Loading == [t |-> "Loading"]
Message(m, v) == [t |-> "Message", message |-> m, show_input |-> v]
\* UiDisplayInputVisibility
NoInputShown(c) == [v |-> "NoInput", show_confirm_message |-> c]
Hidden == [v |-> "Hidden"]
Shown == [v |-> "Shown"]
\* UiInputState
NoInput == [t |-> "NoInput"]
Confirm(n) == [t |-> "Confirm", notifier |-> n]
TextInput(r) == [t |-> "TextInput", responder |-> r]
\* UiInputState::get_type
get_type(i) ==
  CASE i.t = "NoInput" -> "NoInput"
    [] i.t = "Confirm" -> "Confirm"
    [] i.t = "TextInput" -> "Text"

\* tokio::sync::RwLock guards: the guards held on each cell, by task and mode
Guard(task, mode) == [task |-> task, mode |-> mode]
NoLocks == [display |-> {}, input |-> {}]
\* read() / blocking_read() returns once no write guard is out; write() /
\* blocking_write() once no guard is out
CanRead(cell) == \A g \in locks[cell] : g.mode = "read"
CanWrite(cell) == locks[cell] = {}
Acquire(task, cell, mode) ==
  [locks EXCEPT ![cell] = @ \cup {Guard(task, mode)}]
\* (mutant of Unlock: the guard is bound to a variable and lives on past the
\* statement)
Unlock_kept(task, cell) == locks

\* the guard of one statement is dropped where the statement ends
Unlock(task, cell) ==
  [locks EXCEPT ![cell] = {g \in @ : g.task # task}]
Holds(task, cell, mode) == Guard(task, mode) \in locks[cell]
HeldBy(task) == {cell \in DOMAIN locks : \E g \in locks[cell] : g.task = task}

(***************************************************************************)
(* util/change_detector.rs and gui/hidden_input.rs: values                 *)
(***************************************************************************)
Targets == {0, 1}

\* ChangeDetector::new
ChangeDetector_new(target) == [target |-> target, changed |-> TRUE]

\* ChangeDetector::changed: self.changed.load(Relaxed)
changed(self) == self.changed

\* ChangeDetector::deref_mut: self.changed.store(true, Relaxed), then the
\* caller writes through the &mut T it is given
deref_mut(self, written) == [target |-> written, changed |-> TRUE]

IdleCaller == [pc |-> "idle", op |-> "none", seen |-> FALSE]
NoneTaken == [trues |-> 0, marks |-> 0, calls |-> 0, last |-> NoCall]

\* IndicatorInputState and the four IndicatorPhase variants
IndicatorInputState(h, p) == [highlighted_segment |-> h, phase |-> p]
IndicatorInputState_default == IndicatorInputState(None, "Add")
VisiblePhase(st) == [t |-> "Visible", st |-> st]
HiddenPhase(st) == [t |-> "Hidden", st |-> st]
Submitting == [t |-> "Submitting"]
Inactive == [t |-> "Inactive"]
HasInputState(self) == self.t \in {"Visible", "Hidden"}

\* before the first IndicatorPhase call (the stored value is the default)
NoHighlight ==
  [op |-> "none", before |-> Inactive, segments |-> 0, panicked |-> FALSE]

\* neither a detector call nor an indicator call has been made
NoWidgets ==
  /\ detector = ChangeDetector_new(0)
  /\ callers = [t \in 1..MaxThreads |-> IdleCaller]
  /\ taken = NoneTaken
  /\ indicator = Inactive
  /\ highlight = NoHighlight

Configs == [restricted_user : {None} \cup {Some(u) : u \in Usernames},
            command : Commands]

\* the tasks before they are spawned
NoTask == [pc |-> "none"]

(***************************************************************************)
(* SpecClient: any caller of the typestate API                             *)
(***************************************************************************)
InitClient ==
  /\ env_sock \in BOOLEAN
  /\ io = <<>>
  /\ client = NoClient
  /\ open = {}
  /\ last = NoCall
  /\ config \in Configs
  /\ chans = <<>>
  /\ driver = NoTask
  /\ bridge = NoTask
  /\ render = NoTask
  /\ display = Empty
  /\ input = NoInput
  /\ current_input = <<>>
  /\ shown = <<>>
  /\ locks = NoLocks
  /\ NoWidgets

ApiNew ==
  /\ client.type = "None"
  /\ Len(io) < MaxIo
  /\ \E connected \in BOOLEAN :
       LET s == Connects + 1
           ret == Client_new(env_sock, connected, s)
       IN /\ io' = io \o Client_new_io(env_sock, connected, s)
          /\ client' = ret.val
          /\ open' = Owned(open, NoClient, ret)
          /\ last' = Call("new", NoClient, None, ret)
  /\ UNCHANGED <<env_sock, uiVars, utilVars>>

ApiManagerNew ==
  /\ client.type = "None"
  /\ Len(io) < MaxIo
  /\ \E connected \in BOOLEAN :
       LET s == Connects + 1
           ret == ClientManager_new(env_sock, connected, s)
       IN /\ io' = io \o Client_new_io(env_sock, connected, s)
          /\ client' = ret.val
          /\ open' = Owned(open, NoClient, ret)
          /\ last' = Call("manager_new", NoClient, None, ret)
  /\ UNCHANGED <<env_sock, uiVars, utilVars>>

ApiCreateSession ==
  /\ client.type = "Client"
  /\ Len(io) < MaxIo
  /\ \E username \in Usernames, written \in BOOLEAN :
       LET ret == create_session(client, username, written)
       IN /\ io' = io \o create_session_io(client, username, written)
          /\ client' = ret.val
          /\ open' = Owned(open, client, ret)
          /\ last' = Call("create_session", client, username, ret)
  /\ UNCHANGED <<env_sock, uiVars, utilVars>>

ApiNext ==
  /\ client.type = "ActiveClient"
  /\ Len(io) < MaxIo
  /\ \E r \in ReadOutcomes :
       LET ret == ActiveClient_next(client, r)
       IN /\ io' = io \o ActiveClient_next_io(client, r)
          /\ client' = ret.val
          /\ open' = Owned(open, client, ret)
          /\ last' = Call("next", client, r, ret)
  /\ UNCHANGED <<env_sock, uiVars, utilVars>>

ApiActiveCancel ==
  /\ client.type = "ActiveClient"
  /\ Len(io) < MaxIo
  /\ \E written \in BOOLEAN :
       LET ret == ActiveClient_cancel(client, written)
       IN /\ io' = io \o cancel_io(client, written)
          /\ client' = ret.val
          /\ open' = Owned(open, client, ret)
          /\ last' = Call("cancel", client, None, ret)
  /\ UNCHANGED <<env_sock, uiVars, utilVars>>

ApiPromptingNext ==
  /\ client.type = "PromptingClient"
  /\ Len(io) < MaxIo
  /\ \E answer \in ApiAnswers, written \in BOOLEAN :
       LET ret == PromptingClient_next(client, answer, written)
       IN /\ io' = io \o PromptingClient_next_io(client, answer, written)
          /\ client' = ret.val
          /\ open' = Owned(open, client, ret)
          /\ last' = Call("answer", client, answer, ret)
  /\ UNCHANGED <<env_sock, uiVars, utilVars>>

ApiPromptingCancel ==
  /\ client.type = "PromptingClient"
  /\ Len(io) < MaxIo
  /\ \E written \in BOOLEAN :
       LET ret == PromptingClient_cancel(client, written)
       IN /\ io' = io \o cancel_io(client, written)
          /\ client' = ret.val
          /\ open' = Owned(open, client, ret)
          /\ last' = Call("cancel", client, None, ret)
  /\ UNCHANGED <<env_sock, uiVars, utilVars>>

ApiFinish ==
  /\ client.type = "SuccessfulClient"
  /\ Len(io) < MaxIo
  /\ \E command \in Commands, written \in BOOLEAN :
       LET ret == finish(client, command, <<>>, written)
       IN /\ io' = io \o finish_io(client, command, <<>>, written)
          /\ client' = ret.val
          /\ open' = Owned(open, client, ret)
          /\ last' = Call("finish", client, command, ret)
  /\ UNCHANGED <<env_sock, uiVars, utilVars>>

NextClient ==
  \/ ApiNew
  \/ ApiManagerNew
  \/ ApiCreateSession
  \/ ApiNext
  \/ ApiActiveCancel
  \/ ApiPromptingNext
  \/ ApiPromptingCancel
  \/ ApiFinish

SpecClient == InitClient /\ [][NextClient]_vars

(***************************************************************************)
(* Spec: the program once GUI::new has returned.  ClientManager::new has   *)
(* connected stream 1 and made the username channel (channel 1), the two   *)
(* tasks are spawned and eframe calls draw_ui once per frame.              *)
(***************************************************************************)
Running == [t |-> "Running"]
\* (mutant of Returned: every error is reported as a generic one)
Returned_generic(r) ==
  [t |-> "Returned", ok |-> r.ok,
   err |-> IF r.ok THEN NoError ELSE GenericError("error")]

Returned(r) == [t |-> "Returned", ok |-> r.ok, err |-> r.err]
Panicked == [t |-> "Panicked"]

Init ==
  /\ env_sock = TRUE
  /\ io = Client_new_io(TRUE, TRUE, 1)
  /\ client = ClientManager_new(TRUE, TRUE, 1).val
  /\ open = {1}
  /\ last = [op |-> "manager_new", self |-> NoClient, arg |-> None,
             ret |-> ClientManager_new(TRUE, TRUE, 1), at |-> 0]
  /\ config \in Configs
  /\ chans = <<oneshot_channel("username")>>
  /\ driver = [pc |-> "await_username", rx |-> 1, responder |-> 0,
               result |-> Running]
  /\ bridge = [pc |-> "start", for |-> "start", ui |-> 0, start_client |-> 1,
               state_receiver |-> 0, state_sender |-> 0, response_sender |-> 0]
  /\ render = [pc |-> "idle", left |-> 0]
  /\ display = Empty
  /\ input = NoInput
  /\ current_input = <<>>
  /\ shown = <<>>
  /\ locks = NoLocks
  /\ NoWidgets

NewChan == Len(chans) + 1
AuthMessagesRead ==
  Len(SelectSeq(io, LAMBDA e : e.ev = "read" /\ e.resp.t = "AuthMessage"))

\* `*state.display.write().await = d`
WriteDisplay(d) ==
  /\ display' = d
  /\ shown' = Append(shown, d)
  /\ locks' = Unlock("bridge", "display")

\* the channels left once `*state.input.write().await = i` has dropped the
\* cell's old value
Overwritten(cs) == DropTx(cs, Senders(input))

(* ---------------------------------------------------------------------- *)
(* ClientManager::run                                                      *)
(* ---------------------------------------------------------------------- *)
\* what the task owns is dropped when run returns or unwinds
DriverEnds(cs, how) ==
  /\ driver' = [pc |-> "done", rx |-> 0, responder |-> 0, result |-> how]
  /\ chans' = DropRx(DropTx(cs, {driver.responder} \ {0}), {driver.rx} \ {0})
  /\ client' = NoClient
  /\ open' = {}

\* username_receiver.await.unwrap(); client.create_session(username)?
DriverCreateSession ==
  /\ driver.pc = "await_username"
  /\ Ready(chans, driver.rx)
  /\ \E written \in BOOLEAN :
       LET packet == chans[driver.rx].val
           ret == create_session(client, packet.username, written)
           got == Recv(chans, driver.rx)
       IN /\ io' = io \o create_session_io(client, packet.username, written)
          /\ last' = Call("create_session", client, packet.username, ret)
          /\ IF ret.ok
             THEN /\ driver' = [driver EXCEPT !.pc = "next", !.rx = 0,
                                              !.responder = packet.responder]
                  /\ chans' = got
                  /\ client' = ret.val
                  /\ open' = Owned(open, client, ret)
             ELSE DriverEnds(DropTx(got, {packet.responder}), Returned(ret))
  /\ UNCHANGED <<env_sock, config, bridge, render, display, input,
                 current_input, shown, locks, utilVars>>

\* (mutant of AwaitReply: the reply is not awaited; the driver keeps its
\* responder and goes round the loop again)
AwaitReply_skipped(c, pc) == [driver EXCEPT !.pc = "next", !.rx = c]

\* `responder.send(..)` has moved the responder; the task suspends on
\* prompt_receiver.await / command_receiver.await
AwaitReply(c, pc) == [driver EXCEPT !.pc = pc, !.rx = c, !.responder = 0]

\* active_client.next()?, then the state packet for what it returned
DriverNext ==
  /\ driver.pc = "next"
  /\ \E r \in DaemonResponses \cup {ReadFailed} :
       /\ r.t = "AuthMessage" => AuthMessagesRead < MaxPrompts
       /\ LET ret == ActiveClient_next(client, r)
              c == NewChan
          IN /\ io' = io \o ActiveClient_next_io(client, r)
             /\ last' = Call("next", client, r, ret)
             /\ IF ~ret.ok
                THEN DriverEnds(chans, Returned(ret))
                ELSE /\ client' = ret.val
                     /\ open' = Owned(open, client, ret)
                     /\ IF ret.val.type = "PromptingClient"
                        THEN /\ chans' =
                                  Send(Append(chans, oneshot_channel("prompt")),
                                       driver.responder,
                                       Prompt(ret.val.prompt, c))
                             /\ driver' = AwaitReply(c, "await_answer")
                        ELSE /\ chans' =
                                  Send(Append(chans, oneshot_channel("command")),
                                       driver.responder, SuccessPacket(c))
                             /\ driver' = AwaitReply(c, "await_command")
  /\ UNCHANGED <<env_sock, config, bridge, render, display, input,
                 current_input, shown, locks, utilVars>>

\* prompt_receiver.await.unwrap(); prompting_client.next(prompt_response)?
DriverAnswer ==
  /\ driver.pc = "await_answer"
  /\ Ready(chans, driver.rx)
  /\ \E written \in BOOLEAN :
       LET packet == chans[driver.rx].val
           ret == PromptingClient_next(client, packet.answer, written)
           got == Recv(chans, driver.rx)
       IN /\ io' = io \o PromptingClient_next_io(client, packet.answer, written)
          /\ last' = Call("answer", client, packet.answer, ret)
          /\ IF ret.ok
             THEN /\ driver' = [driver EXCEPT !.pc = "next", !.rx = 0,
                                              !.responder = packet.responder]
                  /\ chans' = got
                  /\ client' = ret.val
                  /\ open' = Owned(open, client, ret)
             ELSE DriverEnds(DropTx(got, {packet.responder}), Returned(ret))
  /\ UNCHANGED <<env_sock, config, bridge, render, display, input,
                 current_input, shown, locks, utilVars>>

\* command_receiver.await.unwrap(); successful_client.finish(command, vec![])?
DriverFinish ==
  /\ driver.pc = "await_command"
  /\ Ready(chans, driver.rx)
  /\ \E written \in BOOLEAN :
       LET command == chans[driver.rx].val.cmd
           ret == finish(client, command, <<>>, written)
       IN /\ io' = io \o finish_io(client, command, <<>>, written)
          /\ last' = Call("finish", client, command, ret)
          /\ DriverEnds(Recv(chans, driver.rx), Returned(ret))
  /\ UNCHANGED <<env_sock, config, bridge, render, display, input,
                 current_input, shown, locks, utilVars>>

\* an .await.unwrap() on a channel whose Sender was dropped: the task panics
DriverRecvError ==
  /\ driver.pc \in {"await_username", "await_answer", "await_command"}
  /\ Closed(chans, driver.rx)
  /\ DriverEnds(chans, Panicked)
  /\ UNCHANGED <<env_sock, io, last, config, bridge, render, display, input,
                 current_input, shown, locks, utilVars>>

(* ---------------------------------------------------------------------- *)
(* UiManager::run                                                          *)
(* ---------------------------------------------------------------------- *)
BridgeHandlesTx ==
  {bridge.start_client, bridge.state_sender, bridge.response_sender} \ {0}
BridgeHandlesRx == {bridge.state_receiver, bridge.ui} \ {0}
BridgeEnds(cs, pc) ==
  /\ bridge' = [bridge EXCEPT !.pc = pc, !.ui = 0, !.start_client = 0,
                              !.state_receiver = 0, !.state_sender = 0,
                              !.response_sender = 0]
  /\ chans' = DropRx(DropTx(cs, BridgeHandlesTx), BridgeHandlesRx)

\* the channel the task is suspended on
BridgeAwaits ==
  CASE bridge.pc = "await_ui" -> bridge.ui
    [] bridge.pc = "await_state" -> bridge.state_receiver
    [] OTHER -> 0

\* (mutant of SendUsername: the packet carries String::default(), not the
\* username resolved before)
SendUsername_default(cs, username) ==
  LET c == Len(cs) + 1
      made == Append(cs, oneshot_channel("state"))
  IN IF SendOk(made, bridge.start_client)
     THEN /\ chans' = Send(made, bridge.start_client, UsernamePacket(<<>>, c))
          /\ bridge' = [bridge EXCEPT !.pc = "await_state", !.ui = 0,
                                      !.start_client = 0, !.state_receiver = c]
     ELSE BridgeEnds(Send(made, bridge.start_client,
                          UsernamePacket(<<>>, c)), "panicked")

\* start_client.send((username, state_sender)).unwrap(), after
\* `let (state_sender, mut state_receiver) = oneshot::channel()`
SendUsername(cs, username) ==
  LET c == Len(cs) + 1
      made == Append(cs, oneshot_channel("state"))
  IN IF SendOk(made, bridge.start_client)
     THEN /\ chans' = Send(made, bridge.start_client, UsernamePacket(username, c))
          /\ bridge' = [bridge EXCEPT !.pc = "await_state", !.ui = 0,
                                      !.start_client = 0, !.state_receiver = c]
     ELSE BridgeEnds(Send(made, bridge.start_client,
                          UsernamePacket(username, c)), "panicked")

\* (mutant of BridgeStart: run does not wait for the confirmation and sends
\* the username packet straight away)
BridgeStart_no_gate ==
  /\ bridge.pc = "start"
  /\ SendUsername(chans, IF config.restricted_user # None
                         THEN config.restricted_user[1] ELSE <<>>)
  /\ UNCHANGED <<clientVars, config, driver, render, display, input,
                 current_input, shown, locks, utilVars>>

\* let (notifier, notifiee) = oneshot::channel();
\* *state.input.write().await = UiInputState::Confirm { notifier };
BridgeStart ==
  /\ bridge.pc = "start"
  /\ chans' = Append(Overwritten(chans), oneshot_channel("confirm"))
  /\ input' = Confirm(NewChan)
  /\ bridge' = [bridge EXCEPT !.pc = "await_ui", !.for = "start", !.ui = NewChan]
  /\ locks' = Unlock("bridge", "input")
  /\ UNCHANGED <<clientVars, config, driver, render, display, current_input,
                 shown, utilVars>>

\* notifiee.await.unwrap() returned and config.restricted_user is Some
BridgeRestrictedUser ==
  /\ bridge.pc = "await_ui"
  /\ bridge.for = "start"
  /\ Ready(chans, bridge.ui)
  /\ config.restricted_user # None
  /\ SendUsername(Recv(chans, bridge.ui), config.restricted_user[1])
  /\ UNCHANGED <<clientVars, config, driver, render, display, input,
                 current_input, shown, locks, utilVars>>

\* notifiee.await.unwrap() returned and config.restricted_user is None: the
\* username channel is made and the display set to the "Username:" entry
BridgeAskUsername ==
  /\ bridge.pc = "await_ui"
  /\ bridge.for = "start"
  /\ Ready(chans, bridge.ui)
  /\ config.restricted_user = None
  /\ chans' = Append(Recv(chans, bridge.ui), oneshot_channel("text"))
  /\ WriteDisplay(Message("Username:", Shown))
  /\ bridge' = [bridge EXCEPT !.pc = "write_input", !.for = "username",
                              !.ui = NewChan]
  /\ UNCHANGED <<clientVars, config, driver, render, input, current_input,
                 utilVars>>

\* the write of state.input that follows a write of state.display:
\* Text { responder } for an entry, Confirm { notifier } for an Error prompt
BridgeWriteInput ==
  /\ bridge.pc = "write_input"
  /\ chans' = Overwritten(chans)
  /\ input' = IF bridge.for = "ack" THEN Confirm(bridge.ui)
              ELSE TextInput(bridge.ui)
  /\ bridge' = [bridge EXCEPT !.pc = "await_ui"]
  /\ locks' = Unlock("bridge", "input")
  /\ UNCHANGED <<clientVars, config, driver, render, display, current_input,
                 shown, utilVars>>

\* username_receiver.await.unwrap() returned: display Loading, then the
\* username packet
BridgeUsername ==
  /\ bridge.pc = "await_ui"
  /\ bridge.for = "username"
  /\ Ready(chans, bridge.ui)
  /\ WriteDisplay(Loading)
  /\ SendUsername(Recv(chans, bridge.ui), chans[bridge.ui].val.s)
  /\ UNCHANGED <<clientVars, config, driver, render, input, current_input,
                 utilVars>>

\* state_receiver.await.unwrap() returned a Prompt: the next state channel
\* is made before the prompt is looked at
StatePacketReady(kind) ==
  /\ bridge.pc = "await_state"
  /\ Ready(chans, bridge.state_receiver)
  /\ LET packet == chans[bridge.state_receiver].val
     IN IF kind = "Success" THEN packet.t = "Success"
        ELSE packet.t = "Prompt" /\ packet.prompt.t = kind

\* response_sender.send((response, state_sender)).unwrap()
SendResponse(cs, response_sender, response, state_sender, state_receiver) ==
  IF SendOk(cs, response_sender)
  THEN /\ chans' = Send(cs, response_sender,
                        PromptResponsePacket(response, state_sender))
       /\ bridge' = [bridge EXCEPT !.pc = "await_state", !.ui = 0,
                                   !.state_receiver = state_receiver,
                                   !.state_sender = 0, !.response_sender = 0]
  ELSE BridgeEnds(Send(cs, response_sender,
                       PromptResponsePacket(response, state_sender)), "panicked")

\* (mutant of visibility: the two branches exchanged)
visibility_inverted(secret) == IF secret THEN Shown ELSE Hidden

\* show_input: if secret { Hidden } else { Shown }
visibility(secret) == IF secret THEN Hidden ELSE Shown

\* (mutant of BridgePromptInput: the input cell is written first, while the
\* display still holds what it held before)
BridgePromptInput_input_first ==
  /\ StatePacketReady("Input")
  /\ LET packet == chans[bridge.state_receiver].val
         got == Recv(chans, bridge.state_receiver)
     IN /\ chans' = got \o <<oneshot_channel("state"), oneshot_channel("text")>>
        /\ input' = TextInput(NewChan + 1)
        /\ bridge' = [bridge EXCEPT !.pc = "write_input", !.for = "text",
                                    !.state_receiver = NewChan,
                                    !.state_sender = NewChan,
                                    !.response_sender = packet.response_sender,
                                    !.ui = NewChan + 1]
  /\ locks' = Unlock("bridge", "input")
  /\ UNCHANGED <<clientVars, config, driver, render, display, shown,
                 current_input, utilVars>>

\* AuthPrompt::Input: the display is set, the input cell comes next
BridgePromptInput ==
  /\ StatePacketReady("Input")
  /\ LET packet == chans[bridge.state_receiver].val
         got == Recv(chans, bridge.state_receiver)
     IN /\ chans' = got \o <<oneshot_channel("state"), oneshot_channel("text")>>
        /\ WriteDisplay(Message(packet.prompt.prompt,
                                visibility(packet.prompt.secret)))
        /\ bridge' = [bridge EXCEPT !.pc = "write_input", !.for = "text",
                                    !.state_receiver = NewChan,
                                    !.state_sender = NewChan,
                                    !.response_sender = packet.response_sender,
                                    !.ui = NewChan + 1]
  /\ UNCHANGED <<clientVars, config, driver, render, input, current_input,
                 utilVars>>

\* (mutant of BridgePromptInfo: the note is shown with the confirm hint of the
\* Error branch)
BridgePromptInfo_hint ==
  /\ StatePacketReady("Info")
  /\ LET packet == chans[bridge.state_receiver].val
         got == Recv(chans, bridge.state_receiver)
     IN /\ WriteDisplay(Message(packet.prompt.note, NoInputShown(TRUE)))
        /\ SendResponse(Append(got, oneshot_channel("state")),
                        packet.response_sender, None, NewChan, NewChan)
  /\ UNCHANGED <<clientVars, config, driver, render, input, current_input,
                 utilVars>>

\* AuthPrompt::Info: the display is set and the reply sent at once
BridgePromptInfo ==
  /\ StatePacketReady("Info")
  /\ LET packet == chans[bridge.state_receiver].val
         got == Recv(chans, bridge.state_receiver)
     IN /\ WriteDisplay(Message(packet.prompt.note, NoInputShown(FALSE)))
        /\ SendResponse(Append(got, oneshot_channel("state")),
                        packet.response_sender, None, NewChan, NewChan)
  /\ UNCHANGED <<clientVars, config, driver, render, input, current_input,
                 utilVars>>

\* (mutant of BridgePromptError: the reply is sent at once, as for Info,
\* without waiting for the confirmation)
BridgePromptError_no_wait ==
  /\ StatePacketReady("Error")
  /\ LET packet == chans[bridge.state_receiver].val
         got == Recv(chans, bridge.state_receiver)
     IN /\ WriteDisplay(Message(packet.prompt.note, NoInputShown(TRUE)))
        /\ SendResponse(Append(got, oneshot_channel("state")),
                        packet.response_sender, None, NewChan, NewChan)
  /\ UNCHANGED <<clientVars, config, driver, render, input, current_input,
                 utilVars>>

\* AuthPrompt::Error: the display is set, the input cell comes next
BridgePromptError ==
  /\ StatePacketReady("Error")
  /\ LET packet == chans[bridge.state_receiver].val
         got == Recv(chans, bridge.state_receiver)
     IN /\ chans' = got \o <<oneshot_channel("state"), oneshot_channel("confirm")>>
        /\ WriteDisplay(Message(packet.prompt.note, NoInputShown(TRUE)))
        /\ bridge' = [bridge EXCEPT !.pc = "write_input", !.for = "ack",
                                    !.state_receiver = NewChan,
                                    !.state_sender = NewChan,
                                    !.response_sender = packet.response_sender,
                                    !.ui = NewChan + 1]
  /\ UNCHANGED <<clientVars, config, driver, render, input, current_input,
                 utilVars>>

\* (mutant of BridgeReply: an empty submission is replied as no answer)
BridgeReply_empty_none ==
  /\ bridge.pc = "await_ui"
  /\ bridge.for \in {"text", "ack"}
  /\ Ready(chans, bridge.ui)
  /\ SendResponse(Recv(chans, bridge.ui), bridge.response_sender,
                  IF bridge.for = "text" /\ chans[bridge.ui].val.s # <<>>
                  THEN Some(chans[bridge.ui].val.s)
                  ELSE None,
                  bridge.state_sender, bridge.state_receiver)
  /\ UNCHANGED <<clientVars, config, driver, render, display, input,
                 current_input, shown, locks, utilVars>>

\* ui_respondee.await.unwrap() / ui_notifiee.await.unwrap() returned: the
\* reply is Some(text) for an Input prompt and None for an Error prompt
BridgeReply ==
  /\ bridge.pc = "await_ui"
  /\ bridge.for \in {"text", "ack"}
  /\ Ready(chans, bridge.ui)
  /\ SendResponse(Recv(chans, bridge.ui), bridge.response_sender,
                  IF bridge.for = "text" THEN Some(chans[bridge.ui].val.s)
                  ELSE None,
                  bridge.state_sender, bridge.state_receiver)
  /\ UNCHANGED <<clientVars, config, driver, render, display, input,
                 current_input, shown, locks, utilVars>>

\* StatePacket::Success: display Loading, the command is sent, run returns
BridgeSuccess ==
  /\ StatePacketReady("Success")
  /\ LET packet == chans[bridge.state_receiver].val
         got == Recv(chans, bridge.state_receiver)
     IN /\ WriteDisplay(Loading)
        /\ BridgeEnds(Send(got, packet.command_sender,
                           CommandValue(config.command)),
                      IF SendOk(got, packet.command_sender) THEN "done"
                      ELSE "panicked")
  /\ UNCHANGED <<clientVars, config, driver, render, input, current_input,
                 utilVars>>

\* an .await.unwrap() on a channel whose Sender was dropped: the task panics
BridgeRecvError ==
  /\ bridge.pc \in {"await_ui", "await_state"}
  /\ Closed(chans, BridgeAwaits)
  /\ BridgeEnds(chans, "panicked")
  /\ UNCHANGED <<clientVars, config, driver, render, display, input,
                 current_input, shown, locks, utilVars>>

(* ---------------------------------------------------------------------- *)
(* draw_ui, called by GUI::update once per frame                           *)
(* ---------------------------------------------------------------------- *)
\* A frame starts: the display cell is read and drawn, then the input cell's
\* type is read.  NoInput ends the frame; Confirm goes on only when Enter was
\* pressed in this frame; Text walks the frame's events.
RenderFrame ==
  /\ render.pc = "idle"
  /\ display \in {Empty, Loading} \/ display.t = "Message"
  /\ render' =
       CASE get_type(input) = "NoInput" -> render
         [] get_type(input) = "Confirm" -> [pc |-> "confirm", left |-> 0]
         [] get_type(input) = "Text" -> [pc |-> "text", left |-> MaxEvents]
  /\ UNCHANGED <<clientVars, config, chans, driver, bridge, display, input,
                 current_input, shown, locks, utilVars>>

\* (mutant of take: the cell is cloned, not taken, and keeps its value)
take_keeps(cell) == [taken |-> cell, left |-> cell]

\* std::mem::take(&mut *gui.ui_state.input.blocking_write())
take(cell) == [taken |-> cell, left |-> NoInput]

\* Enter in Confirm mode: the cell is taken; a Confirm is notified
\* (notifier.send(()).unwrap()), anything else is unreachable!()
RenderConfirm ==
  /\ render.pc = "confirm"
  /\ LET t == take(input)
     IN /\ input' = t.left
        /\ IF t.taken.t = "Confirm"
           THEN /\ chans' = Send(chans, t.taken.notifier, Unit)
                /\ render' =
                     [render EXCEPT !.pc =
                        IF SendOk(chans, t.taken.notifier) THEN "idle"
                        ELSE "panicked"]
           ELSE /\ chans' = DropTx(chans, Senders(t.taken))
                /\ render' = [render EXCEPT !.pc = "panicked"]
  /\ locks' = Unlock("render", "input")
  /\ UNCHANGED <<clientVars, config, driver, bridge, display, current_input,
                 shown, utilVars>>

\* Event::Key { key: Enter, pressed: true } in Text mode: the cell is taken;
\* a Text gets std::mem::take(&mut gui.current_input), anything else is
\* unreachable!()
RenderEnter ==
  /\ render.pc = "text"
  /\ render.left > 0
  /\ LET t == take(input)
     IN /\ input' = t.left
        /\ IF t.taken.t = "TextInput"
           THEN /\ chans' = Send(chans, t.taken.responder,
                                 TextValue(current_input))
                /\ current_input' = <<>>
                /\ render' =
                     IF SendOk(chans, t.taken.responder)
                     THEN [render EXCEPT !.left = @ - 1]
                     ELSE [render EXCEPT !.pc = "panicked"]
           ELSE /\ chans' = DropTx(chans, Senders(t.taken))
                /\ current_input' = current_input
                /\ render' = [render EXCEPT !.pc = "panicked"]
  /\ locks' = Unlock("render", "input")
  /\ UNCHANGED <<clientVars, config, driver, bridge, display, shown, utilVars>>

\* Event::Key { key: Backspace, pressed: true }: gui.current_input.pop()
pop(str) == IF str = <<>> THEN str ELSE SubSeq(str, 1, Len(str) - 1)
RenderBackspace ==
  /\ render.pc = "text"
  /\ render.left > 0
  /\ current_input' = pop(current_input)
  /\ render' = [render EXCEPT !.left = @ - 1]
  /\ UNCHANGED <<clientVars, config, chans, driver, bridge, display, input,
                 shown, locks, utilVars>>

\* Event::Text(text): gui.current_input.push_str(&text)
push_str(str, text) == str \o text
RenderText ==
  /\ render.pc = "text"
  /\ render.left > 0
  /\ Len(current_input) < MaxLen
  /\ \E c \in Chars : current_input' = push_str(current_input, <<c>>)
  /\ render' = [render EXCEPT !.left = @ - 1]
  /\ UNCHANGED <<clientVars, config, chans, driver, bridge, display, input,
                 shown, locks, utilVars>>

\* the frame's events are used up
RenderFrameEnd ==
  /\ render.pc = "text"
  /\ render' = [pc |-> "idle", left |-> 0]
  /\ UNCHANGED <<clientVars, config, chans, driver, bridge, display, input,
                 current_input, shown, locks, utilVars>>

Next ==
  \/ DriverCreateSession
  \/ DriverNext
  \/ DriverAnswer
  \/ DriverFinish
  \/ DriverRecvError
  \/ BridgeStart
  \/ BridgeRestrictedUser
  \/ BridgeAskUsername
  \/ BridgeWriteInput
  \/ BridgeUsername
  \/ BridgePromptInput
  \/ BridgePromptInfo
  \/ BridgePromptError
  \/ BridgeReply
  \/ BridgeSuccess
  \/ BridgeRecvError
  \/ RenderFrame
  \/ RenderConfirm
  \/ RenderEnter
  \/ RenderBackspace
  \/ RenderText
  \/ RenderFrameEnd

Spec == Init /\ [][Next]_vars

(***************************************************************************)
(* SpecLocks: the same program with the RwLock of each cell made explicit. *)
(* Acquiring a guard is a step of its own; the step that uses the cell     *)
(* drops the guard with it.  In Spec the two are one step.                 *)
(***************************************************************************)
\* the cell the next statement of UiManager::run writes, "none" when the
\* task is suspended on a channel, between statements without a cell, or over
BridgeWants ==
  CASE bridge.pc \in {"start", "write_input"} -> "input"
    [] /\ bridge.pc = "await_ui"
       /\ bridge.for = "start"
       /\ Ready(chans, bridge.ui)
       /\ config.restricted_user = None -> "display"
    [] /\ bridge.pc = "await_ui"
       /\ bridge.for = "username"
       /\ Ready(chans, bridge.ui) -> "display"
    [] /\ bridge.pc = "await_state"
       /\ Ready(chans, bridge.state_receiver) -> "display"
    [] OTHER -> "none"

\* state.display.write().await / state.input.write().await returns a guard
BridgeLock ==
  /\ BridgeWants # "none"
  /\ ~Holds("bridge", BridgeWants, "write")
  /\ CanWrite(BridgeWants)
  /\ locks' = Acquire("bridge", BridgeWants, "write")
  /\ UNCHANGED <<clientVars, config, chans, driver, bridge, render, display,
                 input, current_input, shown, utilVars>>

\* the statements of UiManager::run that write a cell, run with the guard
HeldBridgeStart == Holds("bridge", "input", "write") /\ BridgeStart
HeldBridgeAskUsername == Holds("bridge", "display", "write") /\ BridgeAskUsername
HeldBridgeWriteInput == Holds("bridge", "input", "write") /\ BridgeWriteInput
HeldBridgeUsername == Holds("bridge", "display", "write") /\ BridgeUsername
HeldBridgePromptInput == Holds("bridge", "display", "write") /\ BridgePromptInput
HeldBridgePromptInfo == Holds("bridge", "display", "write") /\ BridgePromptInfo
HeldBridgePromptError == Holds("bridge", "display", "write") /\ BridgePromptError
HeldBridgeSuccess == Holds("bridge", "display", "write") /\ BridgeSuccess

\* draw_ui: gui.ui_state.display.blocking_read() in the scrutinee of the
\* first match; the guard lives to the end of that match
RenderLockDisplay ==
  /\ render.pc = "idle"
  /\ CanRead("display")
  /\ locks' = Acquire("render", "display", "read")
  /\ render' = [render EXCEPT !.pc = "draw"]
  /\ UNCHANGED <<clientVars, config, chans, driver, bridge, display, input,
                 current_input, shown, utilVars>>

\* the display is drawn and the first match ends
RenderDraw ==
  /\ render.pc = "draw"
  /\ display \in {Empty, Loading} \/ display.t = "Message"
  /\ locks' = Unlock("render", "display")
  /\ render' = [render EXCEPT !.pc = "drawn"]
  /\ UNCHANGED <<clientVars, config, chans, driver, bridge, display, input,
                 current_input, shown, utilVars>>

\* gui.ui_state.input.blocking_read() inside the block_in_place closure
RenderLockInput ==
  /\ render.pc = "drawn"
  /\ CanRead("input")
  /\ locks' = Acquire("render", "input", "read")
  /\ render' = [render EXCEPT !.pc = "get_type"]
  /\ UNCHANGED <<clientVars, config, chans, driver, bridge, display, input,
                 current_input, shown, utilVars>>

\* .get_type() and the closure returns, which drops the guard
RenderGetType ==
  /\ render.pc = "get_type"
  /\ locks' = Unlock("render", "input")
  /\ render' =
       CASE get_type(input) = "NoInput" -> [pc |-> "idle", left |-> 0]
         [] get_type(input) = "Confirm" -> [pc |-> "confirm", left |-> 0]
         [] get_type(input) = "Text" -> [pc |-> "text", left |-> MaxEvents]
  /\ UNCHANGED <<clientVars, config, chans, driver, bridge, display, input,
                 current_input, shown, utilVars>>

\* Enter: gui.ui_state.input.blocking_write() inside the closure of the take
RenderLockTake ==
  /\ render.pc = "confirm" \/ (render.pc = "text" /\ render.left > 0)
  /\ ~Holds("render", "input", "write")
  /\ CanWrite("input")
  /\ locks' = Acquire("render", "input", "write")
  /\ UNCHANGED <<clientVars, config, chans, driver, bridge, render, display,
                 input, current_input, shown, utilVars>>

HeldRenderConfirm == Holds("render", "input", "write") /\ RenderConfirm
HeldRenderEnter == Holds("render", "input", "write") /\ RenderEnter
\* the events that touch no cell
FreeRenderBackspace == HeldBy("render") = {} /\ RenderBackspace
FreeRenderText == HeldBy("render") = {} /\ RenderText
FreeRenderFrameEnd == HeldBy("render") = {} /\ RenderFrameEnd

NextLocks ==
  \/ DriverCreateSession
  \/ DriverNext
  \/ DriverAnswer
  \/ DriverFinish
  \/ DriverRecvError
  \/ BridgeLock
  \/ HeldBridgeStart
  \/ BridgeRestrictedUser
  \/ HeldBridgeAskUsername
  \/ HeldBridgeWriteInput
  \/ HeldBridgeUsername
  \/ HeldBridgePromptInput
  \/ HeldBridgePromptInfo
  \/ HeldBridgePromptError
  \/ BridgeReply
  \/ HeldBridgeSuccess
  \/ BridgeRecvError
  \/ RenderLockDisplay
  \/ RenderDraw
  \/ RenderLockInput
  \/ RenderGetType
  \/ RenderLockTake
  \/ HeldRenderConfirm
  \/ HeldRenderEnter
  \/ FreeRenderBackspace
  \/ FreeRenderText
  \/ FreeRenderFrameEnd

SpecLocks == Init /\ [][NextLocks]_vars

(***************************************************************************)
(* SpecDetector: one ChangeDetector, constructed, then used through shared *)
(* references by several threads (&self methods on an AtomicBool) and      *)
(* through an exclusive one (deref_mut needs &mut self, so no other call   *)
(* is in progress while it runs).  Relaxed loads and stores of the single  *)
(* flag are steps of an interleaving: every load returns the latest store. *)
(***************************************************************************)
\* no client, no tasks: the state the greeter variables keep in the two
\* widget specifications
NotRunning ==
  /\ env_sock = FALSE
  /\ io = <<>>
  /\ client = NoClient
  /\ open = {}
  /\ last = NoCall
  /\ config = [restricted_user |-> None, command |-> <<"bash">>]
  /\ chans = <<>>
  /\ driver = NoTask
  /\ bridge = NoTask
  /\ render = NoTask
  /\ display = Empty
  /\ input = NoInput
  /\ current_input = <<>>
  /\ shown = <<>>
  /\ locks = NoLocks

InitDetector ==
  /\ NotRunning
  /\ \E target \in Targets : detector = ChangeDetector_new(target)
  /\ callers = [t \in 1..MaxThreads |-> IdleCaller]
  /\ taken = NoneTaken
  /\ indicator = Inactive
  /\ highlight = NoHighlight

\* the record of one finished detector call
Told(op, t, ret) ==
  [op |-> op, thread |-> t, before |-> detector.changed,
   after |-> detector'.changed, ret |-> ret]

\* changed(): one load
CallChanged(t) ==
  /\ callers[t].pc = "idle"
  /\ taken.calls < MaxCalls
  /\ detector' = detector
  /\ taken' = [taken EXCEPT !.calls = @ + 1,
                            !.last = Told("changed", t, changed(detector))]
  /\ UNCHANGED <<clientVars, uiVars, callers, indicator, highlight>>

\* take_change(), called directly or by get_if_changed: `if self.changed()`
TakeChangeLoad(t) ==
  /\ callers[t].pc = "idle"
  /\ taken.calls < MaxCalls
  /\ \E op \in {"take_change", "get_if_changed"} :
       callers' = [callers EXCEPT
                     ![t] = [pc |-> "loaded", op |-> op,
                             seen |-> changed(detector)]]
  /\ taken' = [taken EXCEPT !.calls = @ + 1]
  /\ UNCHANGED <<clientVars, uiVars, detector, indicator, highlight>>

\* what the call returns: take_change the bool, get_if_changed
\* `.then_some(&*self)`
Returns(op, b) ==
  IF op = "take_change" THEN b
  ELSE IF b THEN Some(detector.target) ELSE None

\* the true branch: self.changed.store(false, Relaxed); true
TakeChangeStore(t) ==
  /\ callers[t].pc = "loaded"
  /\ callers[t].seen
  /\ detector' = [detector EXCEPT !.changed = FALSE]
  /\ callers' = [callers EXCEPT ![t] = IdleCaller]
  /\ taken' = [taken EXCEPT !.trues = @ + 1,
                            !.last = Told(callers[t].op, t,
                                          Returns(callers[t].op, TRUE))]
  /\ UNCHANGED <<clientVars, uiVars, indicator, highlight>>

\* the false branch
TakeChangeFalse(t) ==
  /\ callers[t].pc = "loaded"
  /\ ~callers[t].seen
  /\ detector' = detector
  /\ callers' = [callers EXCEPT ![t] = IdleCaller]
  /\ taken' = [taken EXCEPT !.last = Told(callers[t].op, t,
                                          Returns(callers[t].op, FALSE))]
  /\ UNCHANGED <<clientVars, uiVars, indicator, highlight>>

\* a mutable dereference: a mark of change
DerefMut ==
  /\ \A t \in 1..MaxThreads : callers[t].pc = "idle"
  /\ taken.marks < MaxMarks
  /\ \E written \in Targets : detector' = deref_mut(detector, written)
  /\ taken' = [taken EXCEPT !.trues = 0, !.marks = @ + 1,
                            !.last = [op |-> "deref_mut"]]
  /\ UNCHANGED <<clientVars, uiVars, callers, indicator, highlight>>

NextDetector ==
  \/ \E t \in 1..MaxThreads : CallChanged(t)
  \/ \E t \in 1..MaxThreads : TakeChangeLoad(t)
  \/ \E t \in 1..MaxThreads : TakeChangeStore(t)
  \/ \E t \in 1..MaxThreads : TakeChangeFalse(t)
  \/ DerefMut

SpecDetector == InitDetector /\ [][NextDetector]_vars

(***************************************************************************)
(* SpecIndicator: the IndicatorPhase value of the hidden-input widget and  *)
(* the calls Indicator::show and its owner make on it.  `segments` is the  *)
(* u8 the Indicator was built with (with_segments takes any u8).  A panic  *)
(* inside the egui data closure ends the program.                          *)
(***************************************************************************)
\* rand's random_range(lo..hi): the values it may return; the call panics
\* when the range is empty
random_range(lo, hi) == {v \in 0..MaxSegments : lo <= v /\ v < hi}

\* IndicatorPhase::set_input_phase
set_input_phase(self, input_phase) ==
  IF HasInputState(self) THEN [self EXCEPT !.st.phase = input_phase]
  ELSE self

\* IndicatorPhase::submit
submit(self) == Submitting

\* IndicatorPhase::edit
edit(self, hidden) ==
  IF HasInputState(self) THEN self
  ELSE IF hidden THEN HiddenPhase(IndicatorInputState_default)
  ELSE VisiblePhase(IndicatorInputState_default)

\* IndicatorPhase::next_highlight: every outcome the call can have
next_highlight(self, segments) ==
  IF HasInputState(self)
  THEN LET highlighted_segment == self.st.highlighted_segment
           range == IF highlighted_segment # None
                    THEN random_range(1, segments)
                    ELSE random_range(0, segments)
           next_index(potential) ==
             IF highlighted_segment # None /\ potential = highlighted_segment[1]
             THEN 0
             ELSE potential
       IN IF range = {} THEN {[panicked |-> TRUE, self |-> self]}
          ELSE {[panicked |-> FALSE,
                 self |-> [self EXCEPT !.st.highlighted_segment =
                                         Some(next_index(potential))]] :
                  potential \in range}
  ELSE {[panicked |-> FALSE, self |-> self]}

\* IndicatorPhase::clear_highlight
clear_highlight(self) ==
  IF HasInputState(self) THEN [self EXCEPT !.st.highlighted_segment = None]
  ELSE self

InitIndicator ==
  /\ NotRunning
  /\ NoWidgets

Asked(op, segments, panicked) ==
  [op |-> op, before |-> indicator, segments |-> segments,
   panicked |-> panicked]

IndSetInputPhase ==
  /\ ~highlight.panicked
  /\ \E input_phase \in {"Add", "Delete"} :
       indicator' = set_input_phase(indicator, input_phase)
  /\ highlight' = Asked("set_input_phase", 0, FALSE)
  /\ UNCHANGED <<clientVars, uiVars, detector, callers, taken>>

IndSubmit ==
  /\ ~highlight.panicked
  /\ indicator' = submit(indicator)
  /\ highlight' = Asked("submit", 0, FALSE)
  /\ UNCHANGED <<clientVars, uiVars, detector, callers, taken>>

IndEdit ==
  /\ ~highlight.panicked
  /\ \E hidden \in BOOLEAN : indicator' = edit(indicator, hidden)
  /\ highlight' = Asked("edit", 0, FALSE)
  /\ UNCHANGED <<clientVars, uiVars, detector, callers, taken>>

IndNextHighlight ==
  /\ ~highlight.panicked
  /\ \E segments \in 0..MaxSegments :
       \E outcome \in next_highlight(indicator, segments) :
         /\ indicator' = outcome.self
         /\ highlight' = Asked("next_highlight", segments, outcome.panicked)
  /\ UNCHANGED <<clientVars, uiVars, detector, callers, taken>>

IndClearHighlight ==
  /\ ~highlight.panicked
  /\ indicator' = clear_highlight(indicator)
  /\ highlight' = Asked("clear_highlight", 0, FALSE)
  /\ UNCHANGED <<clientVars, uiVars, detector, callers, taken>>

NextIndicator ==
  \/ IndSetInputPhase
  \/ IndSubmit
  \/ IndEdit
  \/ IndNextHighlight
  \/ IndClearHighlight

SpecIndicator == InitIndicator /\ [][NextIndicator]_vars

(***************************************************************************)
(* Properties of the typestate client (SpecClient)                         *)
(***************************************************************************)
LastEvent == io[Len(io)]
\* the stream Client::new connected most recently
ConnectedStream ==
  LET cs == {i \in 1..Len(io) : io[i].ev = "connect" /\ io[i].ok}
  IN io[CHOOSE i \in cs : \A j \in cs : j <= i].stream
WroteOk(i, t) == io[i].ev = "write" /\ io[i].ok /\ io[i].req.t = t
ReadAuthMessage(i) == io[i].ev = "read" /\ io[i].resp.t = "AuthMessage"

\* C5: cancel() on an ActiveClient or a PromptingClient, after any earlier
\* calls, makes exactly one transport operation, a write of CancelSession,
\* and returns a Client holding the stream Client::new connected; it returns
\* an error exactly when that write failed.
C5_CancelKeepsTransport ==
  last.op = "cancel" =>
    /\ last.self.type \in {"ActiveClient", "PromptingClient"}
    /\ Len(io) = last.at + 1
    /\ LastEvent.ev = "write"
    /\ LastEvent.req = CancelSession
    /\ LastEvent.stream = ConnectedStream
    /\ last.ret.val = Client(ConnectedStream)
    /\ client = Client(ConnectedStream)
    /\ (last.ret.err # NoError) <=> ~LastEvent.ok
    /\ last.ret.err \in {NoError, FailedSocketWrite}

\* a PromptingClient's cancel whose write failed, after an earlier failed call
C5_Witness ==
  /\ last.op = "cancel"
  /\ last.self.type = "PromptingClient"
  /\ last.ret.err = FailedSocketWrite
  /\ \E i \in 1..(Len(io) - 1) : io[i].ev = "write" /\ ~io[i].ok

\* the typestate a call consumes
Consumes(op) ==
  CASE op = "create_session" -> "Client"
    [] op = "answer" -> "PromptingClient"
    [] op = "finish" -> "SuccessfulClient"

\* C6: when the write of create_session, PromptingClient::next or finish
\* fails, the call returns FailedSocketWrite with the very value it consumed
\* (same state, same prompt, same open stream), so the same call can be made
\* again; the value changes state only when the write succeeded.
C6_WriteFailureKeepsState ==
  last.op \in {"create_session", "answer", "finish"} =>
    /\ Len(io) = last.at + 1
    /\ LastEvent.ev = "write"
    /\ last.self.type = Consumes(last.op)
    /\ ~LastEvent.ok =>
         /\ last.ret = Err(FailedSocketWrite, last.self)
         /\ client = last.self
         /\ client.type = Consumes(last.op)
         /\ client.stream \in open
         /\ client.stream = ConnectedStream
    /\ LastEvent.ok =>
         /\ last.ret.err = NoError
         /\ client.type =
              (IF last.op = "finish" THEN "None" ELSE "ActiveClient")
    /\ client # last.self => LastEvent.ok

\* a PromptingClient whose answer could not be written is still held
C6_Witness ==
  /\ last.op = "answer"
  /\ ~LastEvent.ok
  /\ client.type = "PromptingClient"

\* C7: ActiveClient::next makes one transport operation, a read, and maps
\* what it read: Success to a SuccessfulClient; Error{Error, d} to
\* GenericError(d) and Error{AuthError, d} to AuthError(d), each with a
\* Client; AuthMessage{Visible, t} to Input{t, secret: false}, {Secret, t} to
\* Input{t, secret: true}, {Info, t} to Info{t} and {Error, t} to Error{t},
\* each in a PromptingClient; a failed read to FailedSocketRead with a Client.
C7_NextMapping ==
  last.op = "next" =>
    LET r == last.arg
        s == last.self.stream
        ret == last.ret
    IN /\ last.self.type = "ActiveClient"
       /\ Len(io) = last.at + 1
       /\ LastEvent = Read(s, r)
       /\ \A i \in (last.at + 1)..Len(io) : io[i].ev # "write"
       /\ client = ret.val
       /\ r.t = "Success" =>
            ret = [ok |-> TRUE, err |-> NoError,
                   val |-> [type |-> "SuccessfulClient", stream |-> s]]
       /\ r.t = "ReadFailed" =>
            ret = [ok |-> FALSE, err |-> [t |-> "FailedSocketRead"],
                   val |-> [type |-> "Client", stream |-> s]]
       /\ r.t = "Error" =>
            /\ ~ret.ok
            /\ ret.val = [type |-> "Client", stream |-> s]
            /\ r.error_type = "Error" =>
                 ret.err = [t |-> "GenericError", d |-> r.description]
            /\ r.error_type = "AuthError" =>
                 ret.err = [t |-> "AuthError", d |-> r.description]
       /\ r.t = "AuthMessage" =>
            /\ ret.ok
            /\ ret.err = NoError
            /\ ret.val.type = "PromptingClient"
            /\ ret.val.stream = s
            /\ r.auth_message_type = "Visible" =>
                 ret.val.prompt =
                   [t |-> "Input", prompt |-> r.auth_message, secret |-> FALSE]
            /\ r.auth_message_type = "Secret" =>
                 ret.val.prompt =
                   [t |-> "Input", prompt |-> r.auth_message, secret |-> TRUE]
            /\ r.auth_message_type = "Info" =>
                 ret.val.prompt = [t |-> "Info", note |-> r.auth_message]
            /\ r.auth_message_type = "Error" =>
                 ret.val.prompt = [t |-> "Error", note |-> r.auth_message]

\* next() has read a secret prompt
C7_Witness ==
  /\ last.op = "next"
  /\ last.arg = AuthMessage("Secret", "Password:")
  /\ client.type = "PromptingClient"

\* C8: after any sequence of calls, the stream Client::new connected is owned
\* by exactly one value, the one the last call returned; no failed call drops
\* it; it is dropped only by a finish whose write succeeded.
C8_SingleOwner ==
  /\ client.type # "None" =>
       /\ open = {client.stream}
       /\ client.stream = ConnectedStream
  /\ client.type = "None" =>
       /\ open = {}
       /\ \/ last.op = "none"
          \/ last.op \in {"new", "manager_new"} /\ ~last.ret.ok
          \/ last.op = "finish" /\ last.ret.ok /\ LastEvent.ok
  /\ (last.op \notin {"none", "new", "manager_new"} /\ ~last.ret.ok) =>
       /\ client.type # "None"
       /\ client.stream = last.self.stream

\* a failed read has handed the stream back in a Client
C8_Witness ==
  /\ last.op = "next"
  /\ last.ret.err = FailedSocketRead
  /\ open = {client.stream}

\* C9 as claimed: between two consecutive AuthMessage responses read, exactly
\* one PostAuthMessageResponse is written, in any sequence of calls.
ConsecutiveAuthMessages(i, j) ==
  /\ i < j
  /\ ReadAuthMessage(i)
  /\ ReadAuthMessage(j)
  /\ \A k \in (i + 1)..(j - 1) : ~ReadAuthMessage(k)
Answered(i, j) ==
  Cardinality({k \in (i + 1)..(j - 1) : WroteOk(k, "PostAuthMessageResponse")})
Cancelled(i, j) ==
  \E k \in (i + 1)..(j - 1) : io[k].ev = "write" /\ io[k].req = CancelSession

C9_Original ==
  \A i, j \in 1..Len(io) : ConsecutiveAuthMessages(i, j) => Answered(i, j) = 1

\* C9: between two consecutive AuthMessage responses read, at most one
\* PostAuthMessageResponse is written successfully, and exactly one unless a
\* cancel() was called in between; and every read follows a successful
\* CreateSession or PostAuthMessageResponse with no other read in between, so
\* each successful answer is followed by exactly one next(), which yields a
\* prompt or a terminal outcome and never another ActiveClient.
C9_OneAnswerPerPrompt ==
  /\ \A i, j \in 1..Len(io) :
       ConsecutiveAuthMessages(i, j) =>
         /\ Answered(i, j) <= 1
         /\ ~Cancelled(i, j) => Answered(i, j) = 1
  /\ \A j \in 1..Len(io) :
       io[j].ev = "read" =>
         \E k \in 1..(j - 1) :
           /\ WroteOk(k, "CreateSession") \/ WroteOk(k, "PostAuthMessageResponse")
           /\ \A m \in (k + 1)..(j - 1) :
                io[m].ev # "read" /\ ~(io[m].ev = "write" /\ io[m].ok)
  /\ last.op = "next" => client.type # "ActiveClient"

\* two prompts were read with one answer written between them
C9_Witness ==
  \E i, j \in 1..Len(io) :
    /\ ConsecutiveAuthMessages(i, j)
    /\ Answered(i, j) = 1
    /\ last.op = "next"

\* C10: with GREETD_SOCK unset, Client::new and ClientManager::new return
\* MissingEnvVar, which is not FailedSocketConnection, without any transport
\* operation; with it set, a failed connect is FailedSocketConnection.
C10_MissingEnvVar ==
  /\ MissingEnvVar # FailedSocketConnection
  /\ ~env_sock =>
       /\ io = <<>>
       /\ client = NoClient
       /\ last.op \in {"new", "manager_new"} =>
            last.ret = Err(MissingEnvVar, NoClient)
  /\ (env_sock /\ last.op \in {"new", "manager_new"}) =>
       /\ Len(io) = last.at + 1
       /\ LastEvent.ev = "connect"
       /\ ~LastEvent.ok => last.ret = Err(FailedSocketConnection, NoClient)
       /\ LastEvent.ok => last.ret = Ok(Client(LastEvent.stream))

\* ClientManager::new was called without GREETD_SOCK
C10_Witness ==
  /\ ~env_sock
  /\ last.op = "manager_new"
  /\ last.ret.err = MissingEnvVar

(***************************************************************************)
(* Properties of the running program (Spec)                                *)
(***************************************************************************)
ChansOf(kind) == {i \in 1..Len(chans) : chans[i].kind = kind}
Responses_read ==
  LET rs == SelectSeq(io, LAMBDA e : e.ev = "read")
  IN [i \in 1..Len(rs) |-> rs[i].resp]
NoTransportFailure ==
  \A i \in 1..Len(io) :
    /\ io[i].ev \in {"connect", "write"} => io[i].ok
    /\ io[i].ev = "read" => io[i].resp # ReadFailed

\* C1: the state packets travel on a staircase.  No state channel is sent on
\* twice; the driver sends a state packet on a later state channel only once
\* it has received the prompt-response packet answering the packet on every
\* earlier one; and the bridge receives a Prompt on a later state channel
\* only once it has sent the prompt-response packet for every earlier one.
C1_Staircase ==
  /\ \A i \in ChansOf("state") : chans[i].sends <= 1
  /\ \A i, j \in ChansOf("state") :
       (i < j /\ chans[j].sends > 0) =>
         /\ chans[i].val.t = "Prompt"
         /\ chans[chans[i].val.response_sender].kind = "prompt"
         /\ chans[chans[i].val.response_sender].rx = "received"
  /\ \A i, j \in ChansOf("state") :
       (i < j /\ chans[j].rx = "received") =>
         /\ chans[i].rx = "received"
         /\ chans[chans[i].val.response_sender].tx = "sent"
  /\ Cardinality({i \in ChansOf("state") : chans[i].sends > 0})
       <= Cardinality({i \in ChansOf("prompt") : chans[i].rx = "received"}) + 1
  /\ Cardinality({i \in ChansOf("state") : chans[i].rx = "received"})
       <= Cardinality({i \in ChansOf("prompt") : chans[i].tx = "sent"}) + 1

\* the bridge has received two Prompt packets
C1_Witness ==
  \E i, j \in ChansOf("state") :
    /\ i < j
    /\ chans[i].rx = "received" /\ chans[i].val.t = "Prompt"
    /\ chans[j].rx = "received" /\ chans[j].val.t = "Prompt"

\* C2 as claimed: while no transport operation has failed, whatever the
\* daemon answered, no channel is sent on twice, no send finds its receiver
\* gone, and neither task awaits (or has panicked on) a channel whose sender
\* was dropped without sending.
C2_Claimed ==
  NoTransportFailure =>
    /\ \A i \in 1..Len(chans) : chans[i].sends <= 1 /\ chans[i].tx # "failed"
    /\ \A i \in ChansOf("state") \cup ChansOf("prompt") \cup ChansOf("command")
              \cup ChansOf("username") :
         ~(chans[i].tx = "dropped" /\ chans[i].rx \in {"held", "dropped"})
    /\ driver.result # Panicked
    /\ bridge.pc # "panicked"

\* C3 as claimed: the daemon answered CreateSession with
\* AuthMessage{Secret, "Password:"} and the answer with
\* Error{AuthError, "bad credentials"}.  Once both tasks have ended, the
\* display has shown the masked prompt and after it the error with the
\* confirm hint, the attempt's result is AuthError, and next() handed back a
\* Client.
ScenarioB ==
  /\ Responses_read = <<AuthMessage("Secret", "Password:"),
                        ErrorResponse("AuthError", "bad credentials")>>
  /\ NoTransportFailure
C3_Claimed ==
  (ScenarioB /\ driver.pc = "done" /\ bridge.pc \in {"done", "panicked"}) =>
    /\ \E i, j \in 1..Len(shown) :
         /\ i < j
         /\ shown[i] = Message("Password:", Hidden)
         /\ shown[j] = Message("bad credentials", NoInputShown(TRUE))
    /\ bridge.pc = "done"
    /\ driver.result.t = "Returned"
    /\ driver.result.err = AuthError("bad credentials")
    /\ last.ret.val.type = "Client"

\* the daemon answered CreateSession with AuthMessage{Visible, "Username:"}
\* and the answer with Success
ScenarioA ==
  Responses_read = <<AuthMessage("Visible", "Username:"), Success>>

\* C4: in scenario A, once the driver has ended: the last two values written
\* to the display are the unmasked entry Message{"Username:", Shown} and then
\* Loading; the bridge has sent config.command on the command channel and
\* returned without a panic; the driver did not panic, wrote StartSession
\* with that command and returned Ok (the scenario's transport works; had
\* that last write failed, the result would be its FailedSocketWrite).  And
\* as long as the responses read are a prefix of the scenario's and the
\* CreateSession and PostAuthMessageResponse writes succeeded, neither task
\* has panicked.
C4_ScenarioA ==
  /\ (ScenarioA /\ driver.pc = "done") =>
       /\ Len(shown) >= 2
       /\ shown[Len(shown) - 1] = Message("Username:", Shown)
       /\ shown[Len(shown)] = Loading
       /\ display = Loading
       /\ bridge.pc = "done"
       /\ \E c \in ChansOf("command") :
            /\ chans[c].val = CommandValue(config.command)
            /\ chans[c].sends = 1
            /\ chans[c].rx = "received"
       /\ driver.result.t = "Returned"
       /\ LastEvent.ev = "write"
       /\ LastEvent.req = StartSession(config.command, <<>>)
       /\ LastEvent.ok => driver.result.ok
       /\ ~LastEvent.ok => driver.result.err = FailedSocketWrite
  /\ (/\ Len(Responses_read) <= 2
      /\ \A i \in 1..Len(Responses_read) :
           Responses_read[i] = <<AuthMessage("Visible", "Username:"),
                                 Success>>[i]
      /\ \A i \in 1..Len(io) :
           (io[i].ev = "write" /\ io[i].req.t # "StartSession") => io[i].ok)
       => (bridge.pc # "panicked" /\ driver.result # Panicked)

\* scenario A ran to the end and run returned Ok
C4_Witness ==
  /\ ScenarioA
  /\ driver.pc = "done"
  /\ driver.result.t = "Returned"
  /\ driver.result.ok
  /\ bridge.pc = "done"

\* a step of UiManager::run and of draw_ui: each task changes its own record
\* on every step it takes
BridgeStep == bridge' # bridge /\ render' = render
RenderStep == render' # render /\ bridge' = bridge

\* C11 as claimed: the display cell and the input cell are changed by steps
\* of UiManager::run only; no step of draw_ui changes either.
C11_Original ==
  [][(display' # display \/ input' # input) => BridgeStep]_vars

\* C11: the display cell is changed by steps of UiManager::run only.  The
\* input cell is changed by UiManager::run and, besides, by draw_ui when it
\* handles Enter in Confirm or Text mode: that write takes the reply channel
\* out of the cell and leaves NoInput, never any other value, so a Sender
\* held in the cell is always an unused one.
C11_CellWriters ==
  [][/\ display' # display => BridgeStep
     /\ input' # input =>
          \/ BridgeStep
          \/ /\ RenderStep
             /\ render.pc \in {"confirm", "text"}
             /\ input.t \in {"Confirm", "TextInput"}
             /\ input' = NoInput
             /\ display' = display
     /\ \A c \in Senders(input') : chans'[c].tx = "held"]_vars

\* draw_ui has taken a text reply channel out of the input cell and sent on it
C11_Witness ==
  /\ input = NoInput
  /\ \E c \in ChansOf("text") : chans[c].tx = "sent"
  /\ Len(shown) > 0

\* the channel ClientManager::run is suspended on
DriverAwaits ==
  IF driver.pc \in {"await_username", "await_answer", "await_command"}
  THEN driver.rx ELSE 0
\* a task suspended on channel c with nothing sent yet
Pending(c) == c # 0 /\ chans[c].rx = "held" /\ chans[c].tx # "sent"

\* C12 as claimed: in every reachable state, a channel a task is suspended on
\* has been sent on or still has its Sender (it was not dropped unsent); the
\* driver and the bridge are never both suspended with nothing sent to
\* either; and while the bridge waits for a confirmation or for captured
\* text, the input cell holds that channel's Sender for draw_ui to take.
C12_Claimed ==
  /\ Pending(DriverAwaits) => chans[DriverAwaits].tx = "held"
  /\ Pending(BridgeAwaits) => chans[BridgeAwaits].tx = "held"
  /\ ~(/\ Pending(DriverAwaits)
       /\ bridge.pc = "await_state"
       /\ Pending(BridgeAwaits))
  /\ (bridge.pc = "await_ui" /\ Pending(BridgeAwaits)) =>
       Senders(input) = {BridgeAwaits}

\* the state packets the driver has sent, and the responses that call for one
StatePacketsSent == Cardinality({i \in ChansOf("state") : chans[i].sends > 0})
PacketsCalledFor ==
  Len(SelectSeq(io, LAMBDA e : e.ev = "read"
                               /\ e.resp.t \in {"AuthMessage", "Success"}))
DriverCalls == {"create_session", "next", "answer", "finish"}

\* C13: once create_session, ActiveClient::next, PromptingClient::next or
\* finish has returned an error inside ClientManager::run, run has returned
\* that very error; the failing call's transport operation is the last one
\* ever made; the driver holds no Sender and no client any more; and it has
\* sent one state packet per AuthMessage or Success read, so none after the
\* error.  Once run has ended, nothing is written or sent by it again.
C13_ErrorsTerminal ==
  /\ StatePacketsSent = PacketsCalledFor
  /\ (last.op \in DriverCalls /\ ~last.ret.ok) =>
       /\ driver.pc = "done"
       /\ driver.result = [t |-> "Returned", ok |-> FALSE, err |-> last.ret.err]
       /\ last.ret.err # NoError
       /\ Len(io) = last.at + 1
       /\ driver.responder = 0
       /\ driver.rx = 0
       /\ client = NoClient
  /\ (driver.pc = "done" /\ driver.result.t = "Returned") =>
       /\ Len(io) = last.at + 1
       /\ driver.result.ok = last.ret.ok
       /\ driver.result.ok => last.op = "finish"

\* the daemon refused the answer to a prompt: run returned AuthError after
\* one state packet
C13_Witness ==
  /\ last.op = "next"
  /\ last.ret.err = AuthError("bad credentials")
  /\ driver.result.t = "Returned"
  /\ StatePacketsSent = 1
  /\ \E i \in 1..Len(io) : WroteOk(i, "PostAuthMessageResponse")

\* the confirmations draw_ui has delivered (notifier.send(()))
ConfirmsDelivered ==
  Cardinality({c \in ChansOf("confirm") : chans[c].tx = "sent"})
\* the AuthMessages of one kind among the first j transport operations
AuthMessagesUpTo(j, kinds) ==
  Cardinality({i \in 1..j : /\ ReadAuthMessage(i)
                            /\ io[i].resp.auth_message_type \in kinds})
\* the first transport operation after the j-th, if any
Following(j) == IF j < Len(io) THEN {j + 1} ELSE {}
\* the prompt packets the bridge has received, by state channel
PromptsHandled(kind) ==
  {i \in ChansOf("state") : /\ chans[i].rx = "received"
                            /\ chans[i].val.t = "Prompt"
                            /\ chans[i].val.prompt.t = kind}

\* C14: for every Prompt{Error{text}} the bridge has received, the text has
\* been written to the display with the confirm hint; while the bridge waits
\* for that prompt's confirmation the display still shows it and the input
\* cell is Confirm with that prompt's notifier, or draw_ui has taken it; the
\* reply, once sent, carries no answer and was sent after one more
\* confirmation was delivered than there were earlier waits; and every
\* PostAuthMessageResponse written for a daemon Error message follows that
\* confirmation and carries None.
C14_ErrorConfirmed ==
  /\ \A i \in PromptsHandled("Error") :
       LET p == chans[i].val
           reply == chans[p.response_sender]
       IN /\ \E k \in 1..Len(shown) :
               shown[k] = Message(p.prompt.note, NoInputShown(TRUE))
          /\ reply.sends > 0 =>
               /\ reply.val.answer = None
               /\ \E c \in ChansOf("confirm") :
                    /\ c > p.response_sender
                    /\ chans[c].sends = 1
                    /\ chans[c].val = Unit
                    /\ chans[c].rx = "received"
          /\ (bridge.pc = "await_ui" /\ bridge.response_sender = p.response_sender) =>
               /\ display = Message(p.prompt.note, NoInputShown(TRUE))
               /\ input \in {Confirm(bridge.ui), NoInput}
               /\ reply.sends = 0
  /\ \A j \in 1..Len(io) :
       (ReadAuthMessage(j) /\ io[j].resp.auth_message_type = "Error") =>
         \A k \in Following(j) :
           /\ io[k].ev = "write"
           /\ io[k].req = PostAuthMessageResponse(None)
           /\ ConfirmsDelivered >= 1 + AuthMessagesUpTo(j, {"Error"})

\* a daemon Error message was confirmed by the user and answered
C14_Witness ==
  \E j \in 1..Len(io) :
    /\ ReadAuthMessage(j)
    /\ io[j].resp.auth_message_type = "Error"
    /\ j < Len(io)
    /\ WroteOk(j + 1, "PostAuthMessageResponse")

\* C15: the step in which the bridge takes a Prompt{Info{text}} packet sets
\* the display to Message{text, NoInput{show_confirm_message: false}}, leaves
\* the input cell as it was, and sends the reply with no answer and the next
\* state channel's Sender in that same step, with no step of draw_ui and no
\* user event in between; the bridge then awaits the next state packet.
C15_InfoImmediate ==
  [][(StatePacketReady("Info") /\ bridge' # bridge) =>
       LET p == chans[bridge.state_receiver].val
       IN /\ display' = Message(p.prompt.note, NoInputShown(FALSE))
          /\ shown' = Append(shown, display')
          /\ input' = input
          /\ render' = render
          /\ current_input' = current_input
          /\ chans'[p.response_sender].sends = 1
          /\ chans'[p.response_sender].tx = "sent"
          /\ chans'[p.response_sender].val.answer = None
          /\ chans'[p.response_sender].val.responder = bridge'.state_receiver
          /\ bridge'.pc = "await_state"
          /\ \A c \in ChansOf("confirm") \cup ChansOf("text") :
               chans'[c] = chans[c]]_vars

\* an Info prompt was handled and answered; its note is on the display
C15_Witness ==
  /\ \E i \in PromptsHandled("Info") :
       /\ chans[chans[i].val.response_sender].tx = "sent"
       /\ display = Message(chans[i].val.prompt.note, NoInputShown(FALSE))
  /\ \E j \in 1..Len(io) : io[j].ev = "write"
                           /\ io[j].req = PostAuthMessageResponse(None)

\* the daemon prompt the bridge is handling: the one whose reply channel it holds
PromptInHand ==
  {chans[i].val.prompt : i \in {j \in ChansOf("state") :
     /\ chans[j].rx = "received"
     /\ chans[j].val.t = "Prompt"
     /\ chans[j].val.response_sender = bridge.response_sender}}

\* C16: whenever the input cell holds a text reply channel made for a daemon
\* Input{text, secret} prompt, the bridge is waiting on that channel and the
\* display cell is Message{text, Hidden} if secret and Message{text, Shown}
\* otherwise.  So every character draw_ui captures, and every submission it
\* sends, while the cell holds a secret prompt's channel happens under a
\* masked display.
C16_Masking ==
  (input.t = "TextInput" /\ bridge.for = "text") =>
    /\ bridge.pc = "await_ui"
    /\ bridge.ui = input.responder
    /\ chans[input.responder].kind = "text"
    /\ chans[input.responder].tx = "held"
    /\ Cardinality(PromptInHand) = 1
    /\ \A p \in PromptInHand :
         /\ p.t = "Input"
         /\ display.t = "Message"
         /\ display.message = p.prompt
         /\ p.secret => display.show_input = [v |-> "Hidden"]
         /\ ~p.secret => display.show_input = [v |-> "Shown"]

\* draw_ui is walking a frame's events with one character captured while the
\* cell holds the reply channel of a secret prompt
C16_Witness ==
  /\ input.t = "TextInput"
  /\ bridge.for = "text"
  /\ render.pc = "text"
  /\ current_input # <<>>
  /\ \E p \in PromptInHand : p.secret
  /\ display = Message("Password:", Hidden)

\* the channel made last among a set of channels
Latest(S) == CHOOSE x \in S : \A y \in S : y <= x
IsAnswer(k) == io[k].ev = "write" /\ io[k].req.t = "PostAuthMessageResponse"

\* C17: every PostAuthMessageResponse the driver writes comes right after the
\* read of the AuthMessage it answers, and carries Some(..) exactly when that
\* message is Visible or Secret and None when it is Info or Error.  When the
\* driver has just written one, its answer is the one in the packet received
\* on the latest prompt channel, and for an Input prompt that is Some(s) with
\* s the string draw_ui sent on the text channel the bridge made for this
\* very prompt, the only one made since (Some("") for an empty submission,
\* never None): an answer never comes from another prompt's channel.
C17_AnswerForwarding ==
  /\ \A k \in 1..Len(io) :
       IsAnswer(k) =>
         /\ k > 1
         /\ ReadAuthMessage(k - 1)
         /\ io[k].req.response # None
              <=> io[k - 1].resp.auth_message_type \in {"Visible", "Secret"}
  /\ last.op = "answer" =>
       LET p == Latest(ChansOf("prompt"))
           asked == io[Len(io) - 1].resp.auth_message_type
       IN /\ IsAnswer(Len(io))
          /\ chans[p].rx = "received"
          /\ chans[p].sends = 1
          /\ LastEvent.req.response = chans[p].val.answer
          /\ last.self.prompt.t = "Input" <=> asked \in {"Visible", "Secret"}
          /\ asked \in {"Visible", "Secret"} =>
               LET c == Latest(ChansOf("text"))
               IN /\ c > p
                  /\ \A d \in ChansOf("text") : d > p => d = c
                  /\ chans[c].sends = 1
                  /\ chans[c].val.t = "Text"
                  /\ Len(LastEvent.req.response) = 1
                  /\ LastEvent.req.response[1] = chans[c].val.s
          /\ asked \in {"Info", "Error"} => LastEvent.req.response = None

\* two Input prompts were answered, the first with an empty submission and
\* the second with a typed one
C17_Witness ==
  \E k, m \in 1..Len(io) :
    /\ k < m
    /\ IsAnswer(k) /\ io[k].req.response = Some(<<>>)
    /\ IsAnswer(m) /\ io[m].req.response = Some(<<"a">>)

\* the first confirmation: draw_ui has sent () on the first confirm channel
FirstConfirmed ==
  \E c \in ChansOf("confirm") :
    /\ \A d \in ChansOf("confirm") : c <= d
    /\ chans[c].tx = "sent"
    /\ chans[c].val = Unit
UsernamePacketSent == \E c \in ChansOf("username") : chans[c].sends > 0

\* C18 as claimed: before the first confirmation is delivered the username
\* packet is not sent and no transport operation of any kind has been made.
C18_Original ==
  ~FirstConfirmed => (~UsernamePacketSent /\ io = <<>>)

\* C18: the username packet is sent only after the first confirmation was
\* delivered and received by the bridge, and every request written to the
\* daemon and every response read follows the username packet.  Before the
\* confirmation the only transport operation is the connect that
\* ClientManager::new made inside GUI::new, and the driver is suspended on
\* the username channel.
C18_ConfirmationGate ==
  /\ UsernamePacketSent =>
       /\ FirstConfirmed
       /\ \E c \in ChansOf("confirm") : chans[c].rx = "received"
  /\ ~FirstConfirmed =>
       /\ io = <<Connect(1, TRUE)>>
       /\ driver.pc = "await_username"
       /\ chans[driver.rx].tx = "held"
  /\ Len(io) > 1 =>
       /\ UsernamePacketSent
       /\ \A c \in ChansOf("username") : chans[c].rx = "received"
  /\ io[1].ev = "connect"
  /\ \A k \in 2..Len(io) : io[k].ev \in {"write", "read"}

\* the first confirmation was delivered and CreateSession written after it
C18_Witness ==
  /\ FirstConfirmed
  /\ UsernamePacketSent
  /\ Len(io) >= 2
  /\ io[2].ev = "write"
  /\ io[2].req.t = "CreateSession"

\* the bridge has taken a packet from a state channel
StatePacketHandled == \E i \in ChansOf("state") : chans[i].rx = "received"

\* C19 as claimed: from the moment the username packet is sent until the
\* bridge takes the first state packet, the display cell is Loading, whether
\* the username came from config.restricted_user or was typed.
C19_Claimed ==
  (UsernamePacketSent /\ ~StatePacketHandled) => display = Loading

IsStartSession(k) == io[k].ev = "write" /\ io[k].req.t = "StartSession"

\* C20: once the bridge has taken a Success packet, the last value written to
\* the display is Loading, the packet's command channel carries exactly
\* config.command, sent once, and run has returned without a panic.  The
\* driver writes StartSession at most once, as its last transport operation,
\* right after reading Success, with cmd = config.command and an empty env;
\* having written it, run has returned Ok if the write succeeded and
\* FailedSocketWrite if it failed.
C20_Success ==
  /\ \A i \in ChansOf("state") :
       (chans[i].rx = "received" /\ chans[i].val.t = "Success") =>
         LET c == chans[i].val.command_sender
         IN /\ display = Loading
            /\ shown[Len(shown)] = Loading
            /\ chans[c].kind = "command"
            /\ chans[c].sends = 1
            /\ chans[c].val = [t |-> "Command", cmd |-> config.command]
            /\ bridge.pc = "done"
            /\ Senders(input) = {}
  /\ \A k \in 1..Len(io) :
       IsStartSession(k) =>
         /\ k = Len(io)
         /\ k > 1
         /\ io[k - 1].ev = "read"
         /\ io[k - 1].resp = Success
         /\ io[k].req.cmd = config.command
         /\ io[k].req.env = <<>>
         /\ \A c \in ChansOf("command") : chans[c].rx = "received"
         /\ driver.pc = "done"
         /\ driver.result.t = "Returned"
         /\ driver.result.ok = io[k].ok
         /\ driver.result.err = (IF io[k].ok THEN NoError ELSE FailedSocketWrite)
         /\ bridge.pc = "done"
  /\ \A c \in ChansOf("command") :
       chans[c].rx = "received" => IsStartSession(Len(io))

\* the daemon answered Success and the StartSession write failed: run returned
\* the write error
C20_Witness ==
  /\ IsStartSession(Len(io))
  /\ ~io[Len(io)].ok
  /\ driver.result = [t |-> "Returned", ok |-> FALSE, err |-> FailedSocketWrite]
  /\ bridge.pc = "done"
  /\ display = Loading

IsWrite(k, t) == io[k].ev = "write" /\ io[k].req.t = t

\* C21: the driver's transport operations after the connect of GUI::new are:
\* one write of CreateSession, then reads, each followed by nothing, by a
\* PostAuthMessageResponse (after an AuthMessage) or by the single
\* StartSession (after Success).  Nothing is written before the username
\* packet was received; CreateSession carries the username of that packet,
\* which is config.restricted_user when it is set and otherwise the string
\* draw_ui sent on the bridge's username entry channel; a read follows a
\* successful write only.
C21_LinearOrder ==
  /\ Len(io) >= 2 =>
       /\ IsWrite(2, "CreateSession")
       /\ \A c \in ChansOf("username") :
            /\ chans[c].rx = "received"
            /\ io[2].req.username = chans[c].val.username
       /\ config.restricted_user # None =>
            /\ io[2].req.username = config.restricted_user[1]
            /\ ChansOf("text") \cap 1..3 = {}
       /\ config.restricted_user = None =>
            /\ chans[3].kind = "text"
            /\ chans[3].rx = "received"
            /\ io[2].req.username = chans[3].val.s
  /\ \A k \in 3..Len(io) :
       /\ io[k].ev # "connect"
       /\ ~IsWrite(k, "CreateSession")
       /\ ~IsWrite(k, "CancelSession")
       /\ io[k].ev = "read" => (io[k - 1].ev = "write" /\ io[k - 1].ok
                                /\ io[k - 1].req.t # "StartSession")
       /\ io[k].ev = "write" => io[k - 1].ev = "read"
       /\ IsWrite(k, "PostAuthMessageResponse") => ReadAuthMessage(k - 1)
       /\ IsWrite(k, "StartSession") => (io[k - 1].resp = Success /\ k = Len(io))

\* a typed username was written in CreateSession, a prompt answered and the
\* session started
C21_Witness ==
  /\ config.restricted_user = None
  /\ Len(io) >= 6
  /\ io[2].req = CreateSession(<<"a">>)
  /\ \E k \in 3..Len(io) : IsWrite(k, "PostAuthMessageResponse")
  /\ IsWrite(Len(io), "StartSession")

(***************************************************************************)
(* Properties of the cell locks (SpecLocks)                                *)
(***************************************************************************)
\* a task that is about to acquire a guard and does not have it yet
BridgeAcquiring ==
  BridgeWants # "none" /\ ~Holds("bridge", BridgeWants, "write")
RenderAcquiring ==
  \/ render.pc \in {"idle", "drawn"}
  \/ /\ render.pc = "confirm" \/ (render.pc = "text" /\ render.left > 0)
     /\ ~Holds("render", "input", "write")

\* C22: only UiManager::run and draw_ui ever hold a guard; a write guard is
\* alone on its cell; and a task holds no guard on either cell when it is
\* suspended on a oneshot channel nothing was sent on, when it is about to
\* acquire a guard (of the same cell in another mode, or of the other cell),
\* or when it has ended.  So whoever holds a guard is running and drops it
\* without anybody's help.
C22_NoGuardWhileSuspended ==
  /\ \A cell \in DOMAIN locks :
       /\ \A g \in locks[cell] : g.task \in {"bridge", "render"}
       /\ \A g, h \in locks[cell] : (g.mode = "write" /\ h # g) => FALSE
  /\ Pending(BridgeAwaits) => HeldBy("bridge") = {}
  /\ Pending(DriverAwaits) => HeldBy("driver") = {}
  /\ BridgeAcquiring => HeldBy("bridge") = {}
  /\ RenderAcquiring => HeldBy("render") = {}
  /\ bridge.pc \in {"done", "panicked"} => HeldBy("bridge") = {}
  /\ render.pc = "panicked" => HeldBy("render") = {}
  /\ Cardinality(HeldBy("bridge")) <= 1
  /\ Cardinality(HeldBy("render")) <= 1

\* the bridge holds the write guard of the input cell, about to install a
\* prompt's reply channel, while draw_ui is blocked in blocking_read on it
C22_Witness ==
  /\ Holds("bridge", "input", "write")
  /\ bridge.pc = "write_input"
  /\ render.pc = "drawn"
  /\ ~CanRead("input")

(***************************************************************************)
(* Properties of the render pass (Spec)                                    *)
(***************************************************************************)
\* C23 as claimed: draw_ui never panics: whenever it takes the input cell on
\* Enter, having read the cell's type as Confirm (as Text), the value taken
\* is a Confirm (a Text), so neither unreachable!() is reached, and the send
\* on the taken channel succeeds; whatever the bridge does meanwhile and
\* however many Enter events one frame delivers.
C23_Claimed == render.pc # "panicked"

\* C24 as claimed: whenever a render pass is about to start while the input
\* cell is not Text, GUI::current_input is empty; so what a submission sends
\* was typed while its own prompt's reply channel was in the cell.
C24_Claimed ==
  (render.pc = "idle" /\ input.t # "TextInput") => current_input = <<>>

(***************************************************************************)
(* C25  request/response pairing on the transport                          *)
(***************************************************************************)
\* the k-th transport operation is a request that reached the daemon
IsRequest(k) == io[k].ev = "write" /\ io[k].ok

\* C25 as claimed: every request the client has written is followed by a read
\* of one response on the same stream before the client writes again or lets
\* go of the stream; a request that is the latest operation still has its
\* stream open for that read.
C25_Claimed ==
  \A k \in 1..Len(io) :
    IsRequest(k) =>
      IF k = Len(io)
      THEN io[k].stream \in open
      ELSE io[k + 1].ev = "read" /\ io[k + 1].stream = io[k].stream

(***************************************************************************)
(* C26  ChangeDetector: at most one true per mark                          *)
(***************************************************************************)
\* C26 as claimed: a detector no call has touched is in the changed state;
\* since the latest mark of change (construction or a mutable dereference)
\* take_change has returned true at most once, whichever threads called it;
\* and a call of changed() leaves the flag as it found it.
C26_Claimed ==
  /\ (taken.calls = 0 /\ taken.marks = 0) => detector.changed
  /\ taken.trues <= 1
  /\ taken.last.op = "changed" => taken.last.after = taken.last.before

(***************************************************************************)
(* C27  IndicatorPhase::next_highlight                                     *)
(***************************************************************************)
\* C27 as claimed: a call of next_highlight with segments >= 1 does not
\* panic; in a Visible or Hidden state it leaves the highlighted segment at
\* an index in [0, segments) that differs from the one highlighted before
\* when there was one; in Submitting and Inactive it changes nothing.
C27_Claimed ==
  (highlight.op = "next_highlight" /\ highlight.segments >= 1) =>
    /\ ~highlight.panicked
    /\ IF HasInputState(highlight.before)
       THEN /\ indicator.t = highlight.before.t
            /\ indicator.st.phase = highlight.before.st.phase
            /\ indicator.st.highlighted_segment \in
                 {Some(i) : i \in 0..(highlight.segments - 1)}
            /\ highlight.before.st.highlighted_segment # None =>
                 indicator.st.highlighted_segment #
                   highlight.before.st.highlighted_segment
       ELSE indicator = highlight.before
====
